---- MODULE Spec2Model ----
\* Model of the mgmterror package: the canonical rpc-error record, the
\* info-tag codec, the three classification tables, the typed constructors,
\* the reverse classifier, the JSON/XML layout and the MgmtErrorList.
\*
\* Strings that the code splits or joins at ':' (info-tag names, namespaces,
\* module names, JSON keys) are sequences of tokens; a token is either ":" or
\* a non-empty run of other characters.  All other strings are atoms.
EXTENDS Integers, Sequences, FiniteSets, TLC

VARIABLES
    infotag,    \* SpecTag: the MgmtErrorInfoTag being encoded (Space, Local, Value)
    tagjson,    \* SpecTag: <<>> or <<object>>, the JSON object given to UnmarshalJSON
    tagdec,     \* SpecTag: <<>> or <<result>> of MgmtErrorInfoTag.UnmarshalJSON
    ncerr,      \* SpecError: <<>> or <<typed error>> returned by a constructor
    ejson,      \* SpecError: <<>> or <<JSON object>> of json.Marshal(ncerr)
    edec,       \* SpecError: <<>> or <<record>> of the wrapper's UnmarshalJSON
    exml,       \* SpecError: <<>> or <<XML element>> of xml.Marshal(ncerr)
    exdec,      \* SpecError: <<>> or <<record>> of xml.Unmarshal into a MgmtError
    cls,        \* SpecError: <<>> or <<result>> of the reverse classifier on edec
    errs,       \* Spec: the members of the MgmtErrorList being built
    ins,        \* Spec: the values handed to MgmtErrorListAppend, in call order
    wire,       \* Spec: <<>> or <<JSON document>> of an error list
    unmarshal,  \* Spec: <<>> or <<members>> of the list decoded from wire
    call,       \* <<>> or <<[fn, ...arguments]>>, the last read-only call made
    ret,        \* <<>> or <<value>>, what that call returned
    tables      \* the package-level classification tables and lookup maps

vars == <<infotag, tagjson, tagdec, ncerr, ejson, edec, exml, exdec, cls,
          errs, ins, wire, unmarshal, call, ret, tables>>

tagVars == <<infotag, tagjson, tagdec>>
errVars == <<ncerr, ejson, edec, exml, exdec, cls>>
listVars == <<errs, ins, wire, unmarshal>>
fnVars == <<call, ret>>

\* ---------------------------------------------------------------------
\* Bounds of the model

\* longest Info list a constructor is given (paths of NewNonUniqueError,
\* matches of NewPathAmbiguousError)
MaxInfo == 2
\* longest error list built with MgmtErrorListAppend
MaxList == 2

\* ---------------------------------------------------------------------
\* mgmterror.go: constants

netconf_module == <<"ietf-netconf">>
netconf_namespace ==
    <<"urn", ":", "ietf", ":", "params", ":", "xml", ":", "ns", ":",
      "netconf", ":", "base", ":", "1.0">>
yang_module == <<"ietf-yang">>
yang_namespace ==
    <<"urn", ":", "ietf", ":", "params", ":", "xml", ":", "ns", ":",
      "yang", ":", "1">>
vyattaModule == <<"vyatta-yang">>
VyattaNamespace ==
    <<"urn", ":", "vyatta.com", ":", "mgmt", ":", "error", ":", "1">>

\* errtypemap: wire type string -> errtype
errtypemap ==
    ("transport" :> "transport") @@
    ("rpc" :> "rpc") @@
    ("protocol" :> "protocol") @@
    ("application" :> "application")

\* errtype.String(): the key of errtypemap that maps to t, "" if none
errtype_String(t) ==
    IF \E s \in DOMAIN errtypemap : errtypemap[s] = t
    THEN CHOOSE s \in DOMAIN errtypemap : errtypemap[s] = t
    ELSE ""

\* ---------------------------------------------------------------------
\* Token strings

\* strings.Split(k, ":"): the parts between the ':' tokens, in order
RECURSIVE Split(_)
Split(k) ==
    IF \A i \in 1..Len(k) : k[i] # ":"
    THEN <<k>>
    ELSE LET p == CHOOSE i \in 1..Len(k) :
                      k[i] = ":" /\ \A j \in 1..(i - 1) : k[j] # ":"
         IN  <<SubSeq(k, 1, p - 1)>> \o Split(SubSeq(k, p + 1, Len(k)))

\* ---------------------------------------------------------------------
\* mgmterror.go: MgmtErrorInfoTag and its JSON codec

\* NewMgmtErrorInfoTag(ns, name, value)
NewMgmtErrorInfoTag(ns, name, value) ==
    [Space |-> ns, Local |-> name, Value |-> value]

\* the zero MgmtErrorInfoTag that json.Unmarshal decodes into
ZeroInfoTag == [Space |-> <<>>, Local |-> <<>>, Value |-> ""]

\* modmap of lookupNamespace: module -> namespace
modmap ==
    (netconf_module :> netconf_namespace) @@
    (yang_module :> yang_namespace) @@
    (vyattaModule :> VyattaNamespace)

\* nsmap of lookupModule: namespace -> module
nsmap ==
    (netconf_namespace :> netconf_module) @@
    (yang_namespace :> yang_module) @@
    (VyattaNamespace :> vyattaModule)

lookupNamespace(module) ==
    IF module \in DOMAIN modmap THEN modmap[module] ELSE module

\* lookupModule without its fallback: a namespace outside the table gives no
\* prefix at all
lookupModule_noFallback(ns) ==
    IF ns \in DOMAIN nsmap THEN nsmap[ns] ELSE <<>>

lookupModule(ns) ==
    IF ns \in DOMAIN nsmap THEN nsmap[ns] ELSE ns

\* MgmtErrorInfoTag.MarshalJSON: the singleton object {key: value}
InfoTagMarshalJSON(i) ==
    LET key == IF Len(i.Space) > 0
               THEN lookupModule(i.Space) \o <<":">> \o i.Local
               ELSE i.Local
    IN  [key |-> key, value |-> i.Value]

\* MgmtErrorInfoTag.UnmarshalJSON on a decoded map[string]string given as the
\* sequence of its members: an error unless there is exactly one member;
\* receiver i keeps the fields the code does not assign
InfoTagUnmarshalJSON(i, obj) ==
    IF Len(obj) # 1
    THEN [ok |-> FALSE, tag |-> i]
    ELSE LET s == Split(obj[1].key)
         IN  [ok |-> TRUE,
              tag |-> IF Len(s) = 2
                      THEN [Space |-> lookupNamespace(s[1]),
                            Local |-> s[2],
                            Value |-> obj[1].value]
                      ELSE [Space |-> i.Space,
                            Local |-> s[1],
                            Value |-> obj[1].value]]

\* ---------------------------------------------------------------------
\* mgmterror.go: the MgmtError record

\* the zero MgmtError that json.Unmarshal allocates for a list element
ZeroMgmtError ==
    [XMLName |-> [Space |-> <<>>, Local |-> <<>>],
     Typ |-> "", Tag |-> "", Severity |-> "", AppTag |-> "",
     Path |-> "", Message |-> "", Info |-> <<>>]

\* MgmtError.setXMLName
setXMLName(e) ==
    [e EXCEPT !.XMLName = [Space |-> netconf_namespace, Local |-> <<"rpc-error">>]]

\* newMgmtError without the call of setXMLName
newMgmtError_noName == ZeroMgmtError

\* newMgmtError
newMgmtError == setXMLName(ZeroMgmtError)

\* callCreate(fn, err): fn is one of the create functions of the tables, named
\* here by the wrapper type it returns; the wrapper holds err itself
callCreate(fn, e) == [kind |-> fn, rec |-> e]

\* the result of a lookup that found nothing (a nil error)
NilError == [kind |-> "nil", rec |-> ZeroMgmtError]

\* ---------------------------------------------------------------------
\* ncerror.go: the base-protocol catalog

\* ncerrseveritymap: ncerrseverity -> string
ncerrseveritymap == ("nc_severity_error" :> "error")

ncerrseverity_String(s) ==
    IF s \in DOMAIN ncerrseveritymap THEN ncerrseveritymap[s] ELSE ""

\* ncerror.go: ncerrtagmap, wire tag string -> ncerrtag
ncerrtagmap ==
    ("in-use" :> "in_use") @@
    ("invalid-value" :> "invalid_value") @@
    ("too-big" :> "too_big") @@
    ("missing-attribute" :> "missing_attribute") @@
    ("bad-attribute" :> "bad_attribute") @@
    ("unknown-attribute" :> "unknown_attribute") @@
    ("missing-element" :> "missing_element") @@
    ("bad-element" :> "bad_element") @@
    ("unknown-element" :> "unknown_element") @@
    ("unknown-namespace" :> "unknown_namespace") @@
    ("access-denied" :> "access_denied") @@
    ("lock-denied" :> "lock_denied") @@
    ("resource-denied" :> "resource_denied") @@
    ("rollback-failed" :> "rollback_failed") @@
    ("data-exists" :> "data_exists") @@
    ("data-missing" :> "data_missing") @@
    ("operation-not-supported" :> "operation_not_supported") @@
    ("operation-failed" :> "operation_failed") @@
    ("malformed-message" :> "malformed_message")

\* the texts of the msg_nc_... constants, by name
msg_nc ==
    [in_use |->
         "The request requires a resource that already is in use.",
     invalid_value |->
         "The request specifies an unacceptable value for one or more parameters.",
     too_big |->
         "The request or response (that would be generated) is too large for the implementation to handle.",
     missing_attribute |->
         "An expected attribute is missing.",
     bad_attribute |->
         "An attribute value is not correct; e.g., wrong type, out of range, pattern mismatch.",
     unknown_attribute |->
         "An unexpected attribute is present.",
     missing_element |->
         "An expected element is missing.",
     bad_element |->
         "An element value is not correct; e.g., wrong type, out of range, pattern mismatch.",
     unknown_element |->
         "An unexpected element is present.",
     unknown_namespace |->
         "An unexpected namespace is present.",
     access_denied |->
         "Access to the requested protocol operation or data model is denied because authorization failed.",
     lock_denied |->
         "Access to the requested lock is denied because the lock is currently held by another entity.",
     resource_denied |->
         "Request could not be completed because of insufficient resources.",
     rollback_failed |->
         "Request to roll back some configuration change (via rollback-on-error or <discard-changes> operations) was not completed for some reason.",
     data_exists |->
         "Request could not be completed because the relevant data model content already exists.  For example, a \"create\" operation was attempted on data that already exists.",
     data_missing |->
         "Request could not be completed because the relevant data model content does not exist.  For example, a \"delete\" operation was attempted on data that does not exist.",
     operation_not_supported |->
         "Request could not be completed because the requested operation is not supported by this implementation.",
     operation_failed |->
         "Request could not be completed because the requested operation failed for some reason not covered by any other error condition.",
     partial_operation |->
         "This error-tag is obsolete, and SHOULD NOT be sent by servers conforming to this document.",
     malformed_message |->
         "A message could not be handled because it failed to be parsed correctly.  For example, the message is not well-formed XML or it uses an invalid character set."]

\* ncerror.go init(): ncErrTable, ncerrtag -> severity, canned message and
\* the map errtype -> create function (named by the wrapper it returns)
ncErrTable ==
    ("in_use" :> [severity |-> "nc_severity_error", msg |-> msg_nc.in_use, typ |->
        ("protocol" :> "InUseProtocolError") @@
        ("application" :> "InUseApplicationError")]) @@
    ("invalid_value" :> [severity |-> "nc_severity_error", msg |-> msg_nc.invalid_value, typ |->
        ("protocol" :> "InvalidValueProtocolError") @@
        ("application" :> "InvalidValueApplicationError")]) @@
    ("too_big" :> [severity |-> "nc_severity_error", msg |-> msg_nc.too_big, typ |->
        ("transport" :> "TooBigTransportError") @@
        ("rpc" :> "TooBigRpcError") @@
        ("protocol" :> "TooBigProtocolError") @@
        ("application" :> "TooBigApplicationError")]) @@
    ("missing_attribute" :> [severity |-> "nc_severity_error", msg |-> msg_nc.missing_attribute, typ |->
        ("rpc" :> "MissingAttrRpcError") @@
        ("protocol" :> "MissingAttrProtocolError") @@
        ("application" :> "MissingAttrApplicationError")]) @@
    ("bad_attribute" :> [severity |-> "nc_severity_error", msg |-> msg_nc.bad_attribute, typ |->
        ("rpc" :> "BadAttrRpcError") @@
        ("protocol" :> "BadAttrProtocolError") @@
        ("application" :> "BadAttrApplicationError")]) @@
    ("unknown_attribute" :> [severity |-> "nc_severity_error", msg |-> msg_nc.unknown_attribute, typ |->
        ("rpc" :> "UnknownAttrRpcError") @@
        ("protocol" :> "UnknownAttrProtocolError") @@
        ("application" :> "UnknownAttrApplicationError")]) @@
    ("missing_element" :> [severity |-> "nc_severity_error", msg |-> msg_nc.missing_element, typ |->
        ("protocol" :> "MissingElementProtocolError") @@
        ("application" :> "MissingElementApplicationError")]) @@
    ("bad_element" :> [severity |-> "nc_severity_error", msg |-> msg_nc.bad_element, typ |->
        ("protocol" :> "BadElementProtocolError") @@
        ("application" :> "BadElementApplicationError")]) @@
    ("unknown_element" :> [severity |-> "nc_severity_error", msg |-> msg_nc.unknown_element, typ |->
        ("protocol" :> "UnknownElementProtocolError") @@
        ("application" :> "UnknownElementApplicationError")]) @@
    ("unknown_namespace" :> [severity |-> "nc_severity_error", msg |-> msg_nc.unknown_namespace, typ |->
        ("protocol" :> "UnknownNamespaceProtocolError") @@
        ("application" :> "UnknownNamespaceApplicationError")]) @@
    ("access_denied" :> [severity |-> "nc_severity_error", msg |-> msg_nc.access_denied, typ |->
        ("protocol" :> "AccessDeniedProtocolError") @@
        ("application" :> "AccessDeniedApplicationError")]) @@
    ("lock_denied" :> [severity |-> "nc_severity_error", msg |-> msg_nc.lock_denied, typ |->
        ("protocol" :> "LockDeniedError")]) @@
    ("resource_denied" :> [severity |-> "nc_severity_error", msg |-> msg_nc.resource_denied, typ |->
        ("transport" :> "ResourceDeniedTransportError") @@
        ("rpc" :> "ResourceDeniedRpcError") @@
        ("protocol" :> "ResourceDeniedProtocolError") @@
        ("application" :> "ResourceDeniedApplicationError")]) @@
    ("rollback_failed" :> [severity |-> "nc_severity_error", msg |-> msg_nc.rollback_failed, typ |->
        ("protocol" :> "RollbackFailedProtocolError") @@
        ("application" :> "RollbackFailedApplicationError")]) @@
    ("data_exists" :> [severity |-> "nc_severity_error", msg |-> msg_nc.data_exists, typ |->
        ("application" :> "DataExistsError")]) @@
    ("data_missing" :> [severity |-> "nc_severity_error", msg |-> msg_nc.data_missing, typ |->
        ("application" :> "DataMissingError")]) @@
    ("operation_not_supported" :> [severity |-> "nc_severity_error", msg |-> msg_nc.operation_not_supported, typ |->
        ("protocol" :> "OperationNotSupportedProtocolError") @@
        ("application" :> "OperationNotSupportedApplicationError")]) @@
    ("operation_failed" :> [severity |-> "nc_severity_error", msg |-> msg_nc.operation_failed, typ |->
        ("rpc" :> "OperationFailedRpcError") @@
        ("protocol" :> "OperationFailedProtocolError") @@
        ("application" :> "OperationFailedApplicationError")]) @@
    ("malformed_message" :> [severity |-> "nc_severity_error", msg |-> msg_nc.malformed_message, typ |->
        ("rpc" :> "MalformedMessageError")])

\* ncerrtag.String(): the key of ncerrtagmap that maps to t
ncerrtag_String(t) ==
    IF \E s \in DOMAIN ncerrtagmap : ncerrtagmap[s] = t
    THEN CHOOSE s \in DOMAIN ncerrtagmap : ncerrtagmap[s] = t
    ELSE ""

\* getNetconfError without the test that the type is one the tag allows: any
\* known type gives one of the tag's wrappers
getNetconfError_anyType(e) ==
    IF e.Tag \notin DOMAIN ncerrtagmap THEN NilError
    ELSE IF ncerrtagmap[e.Tag] \notin DOMAIN ncErrTable THEN NilError
    ELSE IF e.Typ \notin DOMAIN errtypemap THEN NilError
    ELSE LET ncErrTag == ncErrTable[ncerrtagmap[e.Tag]]
             errTypeId == errtypemap[e.Typ]
         IN  IF errTypeId \in DOMAIN ncErrTag.typ
             THEN callCreate(ncErrTag.typ[errTypeId], e)
             ELSE callCreate(ncErrTag.typ[CHOOSE x \in DOMAIN ncErrTag.typ : TRUE], e)

\* getNetconfError: the wrapper for (Tag, Typ), nil when the tag is unknown,
\* the type is unknown or the type is not in the tag's type map
getNetconfError(e) ==
    IF e.Tag \notin DOMAIN ncerrtagmap THEN NilError
    ELSE IF ncerrtagmap[e.Tag] \notin DOMAIN ncErrTable THEN NilError
    ELSE IF e.Typ \notin DOMAIN errtypemap THEN NilError
    ELSE LET ncErrTag == ncErrTable[ncerrtagmap[e.Tag]]
             errTypeId == errtypemap[e.Typ]
         IN  IF errTypeId \in DOMAIN ncErrTag.typ
             THEN callCreate(ncErrTag.typ[errTypeId], e)
             ELSE NilError

\* ncErrInfoIdMap: ncErrInfoId -> element name
ncErrInfoIdMap ==
    [bad_attribute_info |-> <<"bad-attribute">>,
     bad_element_info |-> <<"bad-element">>,
     bad_namespace_info |-> <<"bad-namespace">>,
     session_id_info |-> <<"session-id">>]

\* the errors returned when a record cannot be set
invalid_error_tag == "invalid error tag"
invalid_error_type == "invalid error type"
invalid_error_tag_type == "invalid error type for tag"

\* setNcError with the type string looked up before the tag
setNcError_typeFirst(e, tag, typ, apptag, path, info) ==
    IF typ \notin DOMAIN errtypemap
    THEN [err |-> invalid_error_type, e |-> e]
    ELSE IF tag \notin DOMAIN ncErrTable
    THEN [err |-> invalid_error_tag, e |-> e]
    ELSE IF errtypemap[typ] \notin DOMAIN ncErrTable[tag].typ
    THEN [err |-> invalid_error_tag_type, e |-> e]
    ELSE [err |-> "",
          e |-> [e EXCEPT !.Tag = ncerrtag_String(tag),
                          !.Typ = typ,
                          !.Severity = ncerrseverity_String(ncErrTable[tag].severity),
                          !.Message = ncErrTable[tag].msg,
                          !.AppTag = apptag,
                          !.Path = path,
                          !.Info = IF info # <<>> THEN info[1] ELSE @]]

\* MgmtError.setNcError(tag, typ, apptag, path, info); info is <<>> for a nil
\* pointer and <<list>> otherwise.  Gives the returned error ("" for nil) and
\* the record after the call.
setNcError(e, tag, typ, apptag, path, info) ==
    IF tag \notin DOMAIN ncErrTable
    THEN [err |-> invalid_error_tag, e |-> e]
    ELSE IF typ \notin DOMAIN errtypemap
    THEN [err |-> invalid_error_type, e |-> e]
    ELSE IF errtypemap[typ] \notin DOMAIN ncErrTable[tag].typ
    THEN [err |-> invalid_error_tag_type, e |-> e]
    ELSE [err |-> "",
          e |-> [e EXCEPT !.Tag = ncerrtag_String(tag),
                          !.Typ = typ,
                          !.Severity = ncerrseverity_String(ncErrTable[tag].severity),
                          !.Message = ncErrTable[tag].msg,
                          !.AppTag = apptag,
                          !.Path = path,
                          !.Info = IF info # <<>> THEN info[1] ELSE @]]

\* a constructor helper panics when the record cannot be set
Panic(msg) == [panic |-> TRUE, why |-> msg, rec |-> ZeroMgmtError]
NoPanic(e) == [panic |-> FALSE, why |-> "", rec |-> e]

newNcError(tag, typ, apptag, path, info) ==
    LET r == setNcError(newMgmtError, tag, typ, apptag, path, info)
    IN  IF r.err # "" THEN Panic(r.err) ELSE NoPanic(r.e)

newAttrError(tag, typ, badAttr, badElem) ==
    newNcError(tag, typ, "", "",
               << <<[Space |-> <<>>, Local |-> ncErrInfoIdMap.bad_attribute_info, Value |-> badAttr],
                    [Space |-> <<>>, Local |-> ncErrInfoIdMap.bad_element_info, Value |-> badElem]>> >>)

newElemError(tag, typ, badElem) ==
    newNcError(tag, typ, "", "",
               << <<[Space |-> <<>>, Local |-> ncErrInfoIdMap.bad_element_info, Value |-> badElem]>> >>)

newUnknownNamespaceError(typ, badElem, badNS) ==
    newNcError("unknown_namespace", typ, "", "",
               << <<[Space |-> <<>>, Local |-> ncErrInfoIdMap.bad_element_info, Value |-> badElem],
                    [Space |-> <<>>, Local |-> ncErrInfoIdMap.bad_namespace_info, Value |-> badNS]>> >>)

\* the record of NewLockDeniedError(sess)
newLockDeniedError(sess) ==
    newNcError("lock_denied", errtype_String("protocol"), "", "",
               << <<[Space |-> <<>>, Local |-> ncErrInfoIdMap.session_id_info, Value |-> sess]>> >>)

\* the typed error a constructor returns: the wrapper around the record of its
\* helper
Typed(wrapper, r) ==
    IF r.panic THEN [kind |-> "panic", rec |-> r.rec]
    ELSE [kind |-> wrapper, rec |-> r.rec]

\* the public New...Error constructors of ncerror.go: the wrapper each one
\* creates, the tag and errtype it passes on, and its argument shape
\* (plain: none; attr: badAttr, badElem; elem: badElem; ns: badElem, badNS;
\* lock: sess)
NcConstructors ==
    {[name |-> "NewInUseProtocolError", wrapper |-> "InUseProtocolError", tag |-> "in_use", typ |-> "protocol", shape |-> "plain"],
     [name |-> "NewInUseApplicationError", wrapper |-> "InUseApplicationError", tag |-> "in_use", typ |-> "application", shape |-> "plain"],
     [name |-> "NewInvalidValueProtocolError", wrapper |-> "InvalidValueProtocolError", tag |-> "invalid_value", typ |-> "protocol", shape |-> "plain"],
     [name |-> "NewInvalidValueApplicationError", wrapper |-> "InvalidValueApplicationError", tag |-> "invalid_value", typ |-> "application", shape |-> "plain"],
     [name |-> "NewTooBigTransportError", wrapper |-> "TooBigTransportError", tag |-> "too_big", typ |-> "transport", shape |-> "plain"],
     [name |-> "NewTooBigRpcError", wrapper |-> "TooBigRpcError", tag |-> "too_big", typ |-> "rpc", shape |-> "plain"],
     [name |-> "NewTooBigProtocolError", wrapper |-> "TooBigProtocolError", tag |-> "too_big", typ |-> "protocol", shape |-> "plain"],
     [name |-> "NewTooBigApplicationError", wrapper |-> "TooBigApplicationError", tag |-> "too_big", typ |-> "application", shape |-> "plain"],
     [name |-> "NewMissingAttrRpcError", wrapper |-> "MissingAttrRpcError", tag |-> "missing_attribute", typ |-> "rpc", shape |-> "attr"],
     [name |-> "NewMissingAttrProtocolError", wrapper |-> "MissingAttrProtocolError", tag |-> "missing_attribute", typ |-> "protocol", shape |-> "attr"],
     [name |-> "NewMissingAttrApplicationError", wrapper |-> "MissingAttrApplicationError", tag |-> "missing_attribute", typ |-> "application", shape |-> "attr"],
     [name |-> "NewBadAttrRpcError", wrapper |-> "BadAttrRpcError", tag |-> "bad_attribute", typ |-> "rpc", shape |-> "attr"],
     [name |-> "NewBadAttrProtocolError", wrapper |-> "BadAttrProtocolError", tag |-> "bad_attribute", typ |-> "protocol", shape |-> "attr"],
     [name |-> "NewBadAttrApplicationError", wrapper |-> "BadAttrApplicationError", tag |-> "bad_attribute", typ |-> "application", shape |-> "attr"],
     [name |-> "NewUnknownAttrRpcError", wrapper |-> "UnknownAttrRpcError", tag |-> "unknown_attribute", typ |-> "rpc", shape |-> "attr"],
     [name |-> "NewUnknownAttrProtocolError", wrapper |-> "UnknownAttrProtocolError", tag |-> "unknown_attribute", typ |-> "protocol", shape |-> "attr"],
     [name |-> "NewUnknownAttrApplicationError", wrapper |-> "UnknownAttrApplicationError", tag |-> "unknown_attribute", typ |-> "application", shape |-> "attr"],
     [name |-> "NewMissingElementProtocolError", wrapper |-> "MissingElementProtocolError", tag |-> "missing_element", typ |-> "protocol", shape |-> "elem"],
     [name |-> "NewMissingElementApplicationError", wrapper |-> "MissingElementApplicationError", tag |-> "missing_element", typ |-> "application", shape |-> "elem"],
     [name |-> "NewBadElementProtocolError", wrapper |-> "BadElementProtocolError", tag |-> "bad_element", typ |-> "protocol", shape |-> "elem"],
     [name |-> "NewBadElementApplicationError", wrapper |-> "BadElementApplicationError", tag |-> "bad_element", typ |-> "application", shape |-> "elem"],
     [name |-> "NewUnknownElementProtocolError", wrapper |-> "UnknownElementProtocolError", tag |-> "unknown_element", typ |-> "protocol", shape |-> "elem"],
     [name |-> "NewUnknownElementApplicationError", wrapper |-> "UnknownElementApplicationError", tag |-> "unknown_element", typ |-> "application", shape |-> "elem"],
     [name |-> "NewUnknownNamespaceProtocolError", wrapper |-> "UnknownNamespaceProtocolError", tag |-> "unknown_namespace", typ |-> "protocol", shape |-> "ns"],
     [name |-> "NewUnknownNamespaceApplicationError", wrapper |-> "UnknownNamespaceApplicationError", tag |-> "unknown_namespace", typ |-> "application", shape |-> "ns"],
     [name |-> "NewAccessDeniedProtocolError", wrapper |-> "AccessDeniedProtocolError", tag |-> "access_denied", typ |-> "protocol", shape |-> "plain"],
     [name |-> "NewAccessDeniedApplicationError", wrapper |-> "AccessDeniedApplicationError", tag |-> "access_denied", typ |-> "application", shape |-> "plain"],
     [name |-> "NewLockDeniedError", wrapper |-> "LockDeniedError", tag |-> "lock_denied", typ |-> "protocol", shape |-> "lock"],
     [name |-> "NewResourceDeniedTransportError", wrapper |-> "ResourceDeniedTransportError", tag |-> "resource_denied", typ |-> "transport", shape |-> "plain"],
     [name |-> "NewResourceDeniedRpcError", wrapper |-> "ResourceDeniedRpcError", tag |-> "resource_denied", typ |-> "rpc", shape |-> "plain"],
     [name |-> "NewResourceDeniedProtocolError", wrapper |-> "ResourceDeniedProtocolError", tag |-> "resource_denied", typ |-> "protocol", shape |-> "plain"],
     [name |-> "NewResourceDeniedApplicationError", wrapper |-> "ResourceDeniedApplicationError", tag |-> "resource_denied", typ |-> "application", shape |-> "plain"],
     [name |-> "NewRollbackFailedProtocolError", wrapper |-> "RollbackFailedProtocolError", tag |-> "rollback_failed", typ |-> "protocol", shape |-> "plain"],
     [name |-> "NewRollbackFailedApplicationError", wrapper |-> "RollbackFailedApplicationError", tag |-> "rollback_failed", typ |-> "application", shape |-> "plain"],
     [name |-> "NewDataExistsError", wrapper |-> "DataExistsError", tag |-> "data_exists", typ |-> "application", shape |-> "plain"],
     [name |-> "NewDataMissingError", wrapper |-> "DataMissingError", tag |-> "data_missing", typ |-> "application", shape |-> "plain"],
     [name |-> "NewOperationNotSupportedProtocolError", wrapper |-> "OperationNotSupportedProtocolError", tag |-> "operation_not_supported", typ |-> "protocol", shape |-> "plain"],
     [name |-> "NewOperationNotSupportedApplicationError", wrapper |-> "OperationNotSupportedApplicationError", tag |-> "operation_not_supported", typ |-> "application", shape |-> "plain"],
     [name |-> "NewOperationFailedProtocolError", wrapper |-> "OperationFailedProtocolError", tag |-> "operation_failed", typ |-> "protocol", shape |-> "plain"],
     [name |-> "NewOperationFailedApplicationError", wrapper |-> "OperationFailedApplicationError", tag |-> "operation_failed", typ |-> "application", shape |-> "plain"],
     [name |-> "NewOperationFailedRpcError", wrapper |-> "OperationFailedRpcError", tag |-> "operation_failed", typ |-> "rpc", shape |-> "plain"],
     [name |-> "NewMalformedMessageError", wrapper |-> "MalformedMessageError", tag |-> "malformed_message", typ |-> "rpc", shape |-> "plain"]}

\* the call c(a, b) of a constructor of ncerror.go; a and b are the string
\* arguments its shape takes, in order
NewNcTyped(c, a, b) ==
    Typed(c.wrapper,
          CASE c.shape = "plain" ->
                   newNcError(c.tag, errtype_String(c.typ), "", "", <<>>)
            [] c.shape = "attr" ->
                   newAttrError(c.tag, errtype_String(c.typ), a, b)
            [] c.shape = "elem" ->
                   newElemError(c.tag, errtype_String(c.typ), a)
            [] c.shape = "ns" ->
                   newUnknownNamespaceError(errtype_String(c.typ), a, b)
            [] c.shape = "lock" ->
                   newLockDeniedError(a))

\* ---------------------------------------------------------------------
\* the YANG catalog

\* yerrseveritymap: yerrseverity -> string
yerrseveritymap ==
    ("yang_severity_error" :> "error") @@
    ("yang_severity_warning" :> "warning")

yerrseverity_String(s) ==
    IF s \in DOMAIN yerrseveritymap THEN yerrseveritymap[s] ELSE ""

needNodePath == ""
noYangPath == ""
needYangPath == ""

\* errtagmap with a tag of its own, which the base protocol does not have
errtagmap_ownTag ==
    ("operation-failed" :> "yang_operation_failed") @@
    ("data-missing" :> "yang_data_missing") @@
    ("bad-attribute" :> "yang_bad_attribute") @@
    ("data-not-unique" :> "yang_data_not_unique")

\* errtagmap: wire tag string -> yerrtag
errtagmap ==
    ("operation-failed" :> "yang_operation_failed") @@
    ("data-missing" :> "yang_data_missing") @@
    ("bad-attribute" :> "yang_bad_attribute")

yerrtag_String(t) ==
    IF \E s \in DOMAIN errtagmap : errtagmap[s] = t
    THEN CHOOSE s \in DOMAIN errtagmap : errtagmap[s] = t
    ELSE ""

\* yerrapptagmap: wire app-tag string -> yerrapptagid
yerrapptagmap ==
    ("data-not-unique" :> "data_not_unique") @@
    ("too-many-elements" :> "too_many_elements") @@
    ("too-few-elements" :> "too_few_elements") @@
    ("must-violation" :> "must_violation") @@
    ("instance-required" :> "instance_required") @@
    ("missing-choice" :> "missing_choice") @@
    ("missing-instance" :> "missing_instance")

yerrapptagid_String(t) ==
    IF \E s \in DOMAIN yerrapptagmap : yerrapptagmap[s] = t
    THEN CHOOSE s \in DOMAIN yerrapptagmap : yerrapptagmap[s] = t
    ELSE ""

\* the texts of the msg_yang_... constants, by name
msg_yang ==
    [operation_failed |-> "The requested operation failed.",
     data_missing |-> "Expected data is missing.",
     bad_attribute |->
         "An attribute value is not correct; e.g., wrong type, out of range, pattern mismatch."]

\* init(): yangErrTable, yerrtag -> severity, canned message and the map
\* yerrapptagid -> create function (named by the wrapper it returns)
yangErrTable ==
    ("yang_operation_failed" :>
        [severity |-> "yang_severity_error", msg |-> msg_yang.operation_failed,
         apptag |->
            ("data_not_unique" :> "NonUniqueError") @@
            ("too_many_elements" :> "TooManyElementsError") @@
            ("too_few_elements" :> "TooFewElementsError") @@
            ("must_violation" :> "MustViolationError")]) @@
    ("yang_data_missing" :>
        [severity |-> "yang_severity_error", msg |-> msg_yang.data_missing,
         apptag |->
            ("instance_required" :> "InstanceRequiredError") @@
            ("missing_choice" :> "MissingChoiceError")]) @@
    ("yang_bad_attribute" :>
        [severity |-> "yang_severity_error", msg |-> msg_yang.bad_attribute,
         apptag |->
            ("missing_instance" :> "InsertFailedError")])

\* getYangError answering only for records of type application
getYangError_applicationOnly(e) ==
    IF e.Typ # "application" THEN NilError
    ELSE IF e.Tag \notin DOMAIN errtagmap THEN NilError
    ELSE IF errtagmap[e.Tag] \notin DOMAIN yangErrTable THEN NilError
    ELSE IF e.AppTag \notin DOMAIN yerrapptagmap THEN NilError
    ELSE LET errtag == yangErrTable[errtagmap[e.Tag]]
             apptag == yerrapptagmap[e.AppTag]
         IN  IF apptag \in DOMAIN errtag.apptag
             THEN callCreate(errtag.apptag[apptag], e)
             ELSE NilError

\* getYangError: the wrapper for (Tag, AppTag), nil when either is unknown or
\* the app-tag is not in the tag's app-tag map
getYangError(e) ==
    IF e.Tag \notin DOMAIN errtagmap THEN NilError
    ELSE IF errtagmap[e.Tag] \notin DOMAIN yangErrTable THEN NilError
    ELSE IF e.AppTag \notin DOMAIN yerrapptagmap THEN NilError
    ELSE LET errtag == yangErrTable[errtagmap[e.Tag]]
             apptag == yerrapptagmap[e.AppTag]
         IN  IF apptag \in DOMAIN errtag.apptag
             THEN callCreate(errtag.apptag[apptag], e)
             ELSE NilError

\* yangErrInfoIdMap: yangErrInfoId -> element name
yangErrInfoIdMap ==
    [non_unique_info |-> <<"non-unique">>,
     missing_choice_info |-> <<"missing-choice">>]

\* setYangError writing AppTag and Path before it looks the tag up
setYangError_writeFirst(e, tag, apptag, path, yangPath, info) ==
    IF tag \notin DOMAIN yangErrTable
    THEN [err |-> invalid_error_tag, e |-> [e EXCEPT !.AppTag = apptag, !.Path = path]]
    ELSE [err |-> "",
          e |-> [e EXCEPT !.Tag = yerrtag_String(tag),
                          !.Typ = "application",
                          !.Severity = yerrseverity_String(yangErrTable[tag].severity),
                          !.Message = yangErrTable[tag].msg,
                          !.AppTag = apptag,
                          !.Path = path,
                          !.Info = IF info # <<>> THEN info[1] ELSE @]]

\* MgmtError.setYangError(tag, apptag, path, yangPath, info)
setYangError(e, tag, apptag, path, yangPath, info) ==
    IF tag \notin DOMAIN yangErrTable
    THEN [err |-> invalid_error_tag, e |-> e]
    ELSE [err |-> "",
          e |-> [e EXCEPT !.Tag = yerrtag_String(tag),
                          !.Typ = "application",
                          !.Severity = yerrseverity_String(yangErrTable[tag].severity),
                          !.Message = yangErrTable[tag].msg,
                          !.AppTag = apptag,
                          !.Path = path,
                          !.Info = IF info # <<>> THEN info[1] ELSE @]]

newYangError(tag, apptag, path, yangPath, info) ==
    LET r == setYangError(newMgmtError, tag, apptag, path, yangPath, info)
    IN  IF r.err # "" THEN Panic(r.err) ELSE NoPanic(r.e)

\* NewNonUniqueError(paths): one non-unique info entry per path, in order
NewNonUniqueError(paths) ==
    LET info == [i \in 1..Len(paths) |->
                    [Space |-> yang_namespace, Local |-> yangErrInfoIdMap.non_unique_info,
                     Value |-> paths[i]]]
    IN  Typed("NonUniqueError",
              newYangError("yang_operation_failed",
                           yerrapptagid_String("data_not_unique"),
                           needNodePath, noYangPath, <<info>>))

NewTooManyElementsError(path) ==
    Typed("TooManyElementsError",
          newYangError("yang_operation_failed",
                       yerrapptagid_String("too_many_elements"),
                       path, noYangPath, <<>>))

NewTooFewElementsError(path) ==
    Typed("TooFewElementsError",
          newYangError("yang_operation_failed",
                       yerrapptagid_String("too_few_elements"),
                       path, noYangPath, <<>>))

NewMustViolationError ==
    Typed("MustViolationError",
          newYangError("yang_operation_failed",
                       yerrapptagid_String("must_violation"),
                       needNodePath, noYangPath, <<>>))

NewInstanceRequiredError(path) ==
    Typed("InstanceRequiredError",
          newYangError("yang_data_missing",
                       yerrapptagid_String("instance_required"),
                       path, needYangPath, <<>>))

\* NewLeafrefMismatchError keeping the referenced path as an info entry
NewLeafrefMismatchError_keepsRef(path, lrefPath) ==
    Typed("LeafrefMismatchError",
          newYangError("yang_data_missing",
                       yerrapptagid_String("instance_required"),
                       path, lrefPath,
                       << <<[Space |-> yang_namespace, Local |-> <<"leafref">>,
                             Value |-> lrefPath]>> >>))

NewLeafrefMismatchError(path, lrefPath) ==
    Typed("LeafrefMismatchError",
          newYangError("yang_data_missing",
                       yerrapptagid_String("instance_required"),
                       path, lrefPath, <<>>))

NewMissingChoiceError(path, name) ==
    LET info == <<[Space |-> yang_namespace, Local |-> yangErrInfoIdMap.missing_choice_info,
                   Value |-> name]>>
    IN  Typed("MissingChoiceError",
              newYangError("yang_operation_failed",
                           yerrapptagid_String("missing_choice"),
                           path, needYangPath, <<info>>))

NewInsertFailedError ==
    Typed("InsertFailedError",
          newYangError("yang_bad_attribute",
                       yerrapptagid_String("missing_instance"),
                       needNodePath, noYangPath, <<>>))

\* ---------------------------------------------------------------------
\* vyerror.go: the vendor catalog

\* vyErrTagMap: wire tag string -> vyErrTag
vyErrTagMap == ("operation-failed" :> "vyatta_operation_failed")

vyErrTag_String(t) ==
    IF \E s \in DOMAIN vyErrTagMap : vyErrTagMap[s] = t
    THEN CHOOSE s \in DOMAIN vyErrTagMap : vyErrTagMap[s] = t
    ELSE ""

\* vyErrAppTagMap: wire app-tag string -> vyErrAppTagId
vyErrAppTagMap ==
    ("exec-failed" :> "exec_failed") @@
    ("path-ambiguous" :> "path_ambig")

vyErrAppTagId_String(t) ==
    IF \E s \in DOMAIN vyErrAppTagMap : vyErrAppTagMap[s] = t
    THEN CHOOSE s \in DOMAIN vyErrAppTagMap : vyErrAppTagMap[s] = t
    ELSE ""

\* init(): vyErrTable
vyErrTable ==
    ("vyatta_operation_failed" :>
        [severity |-> "yang_severity_error", msg |-> msg_yang.operation_failed,
         apptag |->
            ("exec_failed" :> "ExecError") @@
            ("path_ambig" :> "PathAmbiguousError")])

\* getVyattaError: the wrapper for (Tag, AppTag), nil when either is unknown
getVyattaError(e) ==
    IF e.Tag \notin DOMAIN vyErrTagMap THEN NilError
    ELSE IF vyErrTagMap[e.Tag] \notin DOMAIN vyErrTable THEN NilError
    ELSE IF e.AppTag \notin DOMAIN vyErrAppTagMap THEN NilError
    ELSE LET errtag == vyErrTable[vyErrTagMap[e.Tag]]
             apptag == vyErrAppTagMap[e.AppTag]
         IN  IF apptag \in DOMAIN errtag.apptag
             THEN callCreate(errtag.apptag[apptag], e)
             ELSE NilError

\* MgmtError.setVyattaError(tag, apptag, path, info)
setVyattaError(e, tag, apptag, path, info) ==
    IF tag \notin DOMAIN vyErrTable
    THEN [err |-> invalid_error_tag, e |-> e]
    ELSE [err |-> "",
          e |-> [e EXCEPT !.Tag = vyErrTag_String(tag),
                          !.Typ = "application",
                          !.Severity = yerrseverity_String(vyErrTable[tag].severity),
                          !.Message = vyErrTable[tag].msg,
                          !.AppTag = apptag,
                          !.Path = path,
                          !.Info = IF info # <<>> THEN info[1] ELSE @]]

newVyattaError(tag, apptag, path, info) ==
    LET r == setVyattaError(newMgmtError, tag, apptag, path, info)
    IN  IF r.err # "" THEN Panic(r.err) ELSE NoPanic(r.e)

\* pathutil.Pathstr(path): "" for no element, else each element after a "/"
RECURSIVE Pathstr(_)
Pathstr(path) ==
    IF path = <<>> THEN ""
    ELSE Pathstr(SubSeq(path, 1, Len(path) - 1)) \o "/" \o path[Len(path)]

\* NewExecError(path, out): the canned message is replaced by out
NewExecError(path, out) ==
    LET r == newVyattaError("vyatta_operation_failed",
                            vyErrAppTagId_String("exec_failed"),
                            Pathstr(path), <<>>)
    IN  Typed("ExecError",
              IF r.panic THEN r ELSE NoPanic([r.rec EXCEPT !.Message = out]))

\* NewPathAmbiguousError(path, matches): one info entry per match, in the
\* order the iteration over the map visits them; matches is given as that
\* sequence of (name, value) pairs
NewPathAmbiguousError(path, matches) ==
    LET info == [i \in 1..Len(matches) |->
                    NewMgmtErrorInfoTag(VyattaNamespace, matches[i].name,
                                        matches[i].value)]
    IN  Typed("PathAmbiguousError",
              newVyattaError("vyatta_operation_failed",
                             vyErrAppTagId_String("path_ambig"),
                             Pathstr(path), <<info>>))

\* ---------------------------------------------------------------------
\* The reverse classifier over the three catalogs

\* the lookups in the opposite order: base protocol first, vendor last
ReverseClassify_ncFirst(e) ==
    IF getNetconfError(e).kind # "nil" THEN getNetconfError(e)
    ELSE IF getYangError(e).kind # "nil" THEN getYangError(e)
    ELSE IF getVyattaError(e).kind # "nil" THEN getVyattaError(e)
    ELSE NilError

\* the reverse classifier as MgmtErrorList.UnmarshalJSON applies it:
\* vendor first, then YANG, then base protocol; nil when all three miss
ReverseClassify(e) ==
    IF getVyattaError(e).kind # "nil" THEN getVyattaError(e)
    ELSE IF getYangError(e).kind # "nil" THEN getYangError(e)
    ELSE IF getNetconfError(e).kind # "nil" THEN getNetconfError(e)
    ELSE NilError

\* ---------------------------------------------------------------------
\* JSON layout of one record (struct tags of MgmtError, encoding/json)

\* a JSON object is the sequence of its members [key, value] in the order
\* they are written; an info entry is a singleton object

\* json.Marshal of a *MgmtError (or of a wrapper, whose only exported fields
\* are the promoted ones): XMLName is skipped, the three mandatory members are
\* always written, the others only when non-empty
MgmtErrorMarshalJSON(e) ==
    <<[key |-> "error-type", value |-> e.Typ],
      [key |-> "error-tag", value |-> e.Tag],
      [key |-> "error-severity", value |-> e.Severity]>>
    \o (IF e.AppTag # "" THEN <<[key |-> "error-app-tag", value |-> e.AppTag]>> ELSE <<>>)
    \o (IF e.Path # "" THEN <<[key |-> "error-path", value |-> e.Path]>> ELSE <<>>)
    \o (IF e.Message # "" THEN <<[key |-> "error-message", value |-> e.Message]>> ELSE <<>>)
    \o (IF Len(e.Info) > 0
        THEN <<[key |-> "error-info",
                value |-> [i \in 1..Len(e.Info) |-> <<InfoTagMarshalJSON(e.Info[i])>>]]>>
        ELSE <<>>)

HasMember(obj, k) == \E i \in 1..Len(obj) : obj[i].key = k

\* the value of the last member with key k
MemberValue(obj, k) ==
    obj[CHOOSE i \in 1..Len(obj) :
            obj[i].key = k /\ \A j \in (i + 1)..Len(obj) : obj[j].key # k].value

StringField(obj, k, old) == IF HasMember(obj, k) THEN MemberValue(obj, k) ELSE old

\* json.Unmarshal(obj, e): every member present overwrites its field, the
\* other fields keep the value e had; the info array is decoded element by
\* element into zero tags and any failing element fails the whole decode
MgmtErrorUnmarshalJSON(e, obj) ==
    LET arr == IF HasMember(obj, "error-info") THEN MemberValue(obj, "error-info") ELSE <<>>
        dec == [i \in 1..Len(arr) |-> InfoTagUnmarshalJSON(ZeroInfoTag, arr[i])]
    IN  [ok |-> \A i \in 1..Len(arr) : dec[i].ok,
         rec |-> [XMLName |-> e.XMLName,
                  Typ |-> StringField(obj, "error-type", e.Typ),
                  Tag |-> StringField(obj, "error-tag", e.Tag),
                  Severity |-> StringField(obj, "error-severity", e.Severity),
                  AppTag |-> StringField(obj, "error-app-tag", e.AppTag),
                  Path |-> StringField(obj, "error-path", e.Path),
                  Message |-> StringField(obj, "error-message", e.Message),
                  Info |-> IF HasMember(obj, "error-info")
                           THEN [i \in 1..Len(arr) |-> dec[i].tag]
                           ELSE e.Info]]

\* UnmarshalJSON of every typed wrapper: a new record from newMgmtError,
\* then json.Unmarshal into it
WrapperUnmarshalJSON(obj) == MgmtErrorUnmarshalJSON(newMgmtError, obj)

\* ---------------------------------------------------------------------
\* XML layout of one record (struct tags of MgmtError, encoding/xml)

\* an element: its name as the encoder was given it, the default namespace
\* it declares (xmlns="..."; <<>> when it declares none), its character
\* data and its child elements
Element(name, text, children) ==
    [name |-> name,
     xmlns |-> IF name.Space # <<>> THEN <<name.Space>> ELSE <<>>,
     text |-> text,
     children |-> children]

Leaf(local, text) == Element([Space |-> <<>>, Local |-> <<local>>], text, <<>>)

\* MgmtErrorInfo.MarshalXML: an error-info element without namespace around
\* one element per tag, named by the tag's XMLName
MgmtErrorInfoMarshalXML(info) ==
    Element([Space |-> <<>>, Local |-> <<"error-info">>], "",
            [i \in 1..Len(info) |->
                Element([Space |-> info[i].Space, Local |-> info[i].Local],
                        info[i].Value, <<>>)])

\* xml.Marshal of a *MgmtError with error-path written also when it is empty
MgmtErrorMarshalXML_emptyPath(e) ==
    Element(e.XMLName, "",
        <<Leaf("error-type", e.Typ),
          Leaf("error-tag", e.Tag),
          Leaf("error-severity", e.Severity)>>
        \o (IF e.AppTag # "" THEN <<Leaf("error-app-tag", e.AppTag)>> ELSE <<>>)
        \o <<Leaf("error-path", e.Path)>>
        \o (IF e.Message # "" THEN <<Leaf("error-message", e.Message)>> ELSE <<>>)
        \o (IF Len(e.Info) > 0 THEN <<MgmtErrorInfoMarshalXML(e.Info)>> ELSE <<>>))

\* xml.Marshal of a *MgmtError, which every wrapper's MarshalXML delegates to
MgmtErrorMarshalXML(e) ==
    Element(e.XMLName, "",
        <<Leaf("error-type", e.Typ),
          Leaf("error-tag", e.Tag),
          Leaf("error-severity", e.Severity)>>
        \o (IF e.AppTag # "" THEN <<Leaf("error-app-tag", e.AppTag)>> ELSE <<>>)
        \o (IF e.Path # "" THEN <<Leaf("error-path", e.Path)>> ELSE <<>>)
        \o (IF e.Message # "" THEN <<Leaf("error-message", e.Message)>> ELSE <<>>)
        \o (IF Len(e.Info) > 0 THEN <<MgmtErrorInfoMarshalXML(e.Info)>> ELSE <<>>))

\* the name the decoder reports for an element: the namespace is the default
\* namespace in scope, i.e. the one the element declares or else the one
\* inherited from its ancestors
ResolvedName(el, inherited) ==
    [Space |-> IF el.xmlns # <<>> THEN el.xmlns[1] ELSE inherited,
     Local |-> el.name.Local]

\* the default namespace in scope inside el
ScopeOf(el, inherited) == IF el.xmlns # <<>> THEN el.xmlns[1] ELSE inherited

\* MgmtErrorInfo.UnmarshalXML: every start element up to the end of
\* error-info is decoded into a tag (XMLName from the element, Value from its
\* character data)
MgmtErrorInfoUnmarshalXML(el, inherited) ==
    [i \in 1..Len(el.children) |->
        LET n == ResolvedName(el.children[i], ScopeOf(el, inherited))
        IN  [Space |-> n.Space, Local |-> n.Local, Value |-> el.children[i].text]]

HasChild(el, local) == \E i \in 1..Len(el.children) : el.children[i].name.Local = <<local>>

\* the last child with that local name
Child(el, local) ==
    el.children[CHOOSE i \in 1..Len(el.children) :
                    /\ el.children[i].name.Local = <<local>>
                    /\ \A j \in (i + 1)..Len(el.children) :
                           el.children[j].name.Local # <<local>>]

TextField(el, local, old) == IF HasChild(el, local) THEN Child(el, local).text ELSE old

\* xml.Unmarshal(el, e): XMLName is the resolved name of the root, fields are
\* matched by local name, error-info goes through MgmtErrorInfo.UnmarshalXML
MgmtErrorUnmarshalXML(e, el) ==
    [XMLName |-> ResolvedName(el, <<>>),
     Typ |-> TextField(el, "error-type", e.Typ),
     Tag |-> TextField(el, "error-tag", e.Tag),
     Severity |-> TextField(el, "error-severity", e.Severity),
     AppTag |-> TextField(el, "error-app-tag", e.AppTag),
     Path |-> TextField(el, "error-path", e.Path),
     Message |-> TextField(el, "error-message", e.Message),
     Info |-> IF HasChild(el, "error-info")
              THEN MgmtErrorInfoUnmarshalXML(Child(el, "error-info"), ScopeOf(el, <<>>))
              ELSE e.Info]

\* ---------------------------------------------------------------------
\* MgmtErrorList

\* the dynamic types a list is given, other than the typed wrappers:
\* *MgmtError itself (Formattable, no marshaller), *testMgmtError of the
\* package's tests (MarshalXML), a caller's type with only the Formattable
\* getters, a caller's type with only MarshalJSON, and a plain error
ForeignKinds ==
    {"*MgmtError", "*testMgmtError", "foreignFormattable", "foreignJSONMarshaler",
     "*errors.errorString"}

\* every typed wrapper has MarshalXML
ImplementsXMLMarshaler(v) ==
    v.kind \notin (ForeignKinds \ {"*testMgmtError"})

ImplementsJSONMarshaler(v) == v.kind = "foreignJSONMarshaler"

\* every typed wrapper embeds *MgmtError and so has its getters
ImplementsFormattable(v) ==
    v.kind \notin {"foreignJSONMarshaler", "*errors.errorString"}

\* GetMessage() / GetPath() of a value that reaches the Formattable case of
\* mkMgmtError (no marshaller): the record's or the foreign value's own
GetMessage(v) == IF v.kind = "foreignFormattable" THEN v.msg ELSE v.rec.Message
GetPath(v) == IF v.kind = "foreignFormattable" THEN v.path ELSE v.rec.Path

\* Error() of a plain error
ErrorString(v) == v.text

NewOperationFailedApplicationError ==
    Typed("OperationFailedApplicationError",
          newNcError("operation_failed", errtype_String("application"), "", "", <<>>))

\* mkMgmtError without the copy of the path in the Formattable case
mkMgmtError_noPath(v) ==
    IF ImplementsJSONMarshaler(v) \/ ImplementsXMLMarshaler(v) THEN v
    ELSE IF ImplementsFormattable(v)
    THEN [NewOperationFailedApplicationError EXCEPT !.rec.Message = GetMessage(v)]
    ELSE [NewOperationFailedApplicationError EXCEPT !.rec.Message = ErrorString(v)]

\* mkMgmtError
mkMgmtError(v) ==
    IF ImplementsJSONMarshaler(v) \/ ImplementsXMLMarshaler(v) THEN v
    ELSE IF ImplementsFormattable(v)
    THEN [NewOperationFailedApplicationError EXCEPT
              !.rec.Message = GetMessage(v), !.rec.Path = GetPath(v)]
    ELSE [NewOperationFailedApplicationError EXCEPT
              !.rec.Message = ErrorString(v)]

\* MgmtErrorListAppend without the normalization of its arguments
MgmtErrorListAppend_raw(l, vs) == l \o vs

\* MgmtErrorListAppend(vs...) on the members l
MgmtErrorListAppend(l, vs) == l \o [i \in 1..Len(vs) |-> mkMgmtError(vs[i])]

\* json.Marshal of one member
MemberMarshalJSON(v) ==
    IF v.kind = "foreignJSONMarshaler"
    THEN <<[key |-> "foreign", value |-> v.text]>>
    ELSE MgmtErrorMarshalJSON(v.rec)

\* a JSON value where more than an object can stand (a document, an element
\* of the error-list array): an object with its members, null, any other
\* value (a string, a number, an array), or text that is not JSON at all
JSONObject(m) == [type |-> "object", members |-> m]
JSONOther(t) == [type |-> t, members |-> <<>>]

\* MgmtErrorList.MarshalJSON: {"error-list": [ members in order ]}
MgmtErrorListMarshalJSON(l) ==
    JSONObject(<<[key |-> "error-list",
                  value |-> [i \in 1..Len(l) |-> JSONObject(MemberMarshalJSON(l[i]))]]>>)

\* the entry of a record when only the vendor catalog is asked
DecodedEntry_vendorOnly(e) ==
    LET r == setXMLName(e)
    IN  IF getVyattaError(r).kind # "nil" THEN getVyattaError(r)
        ELSE [kind |-> "*MgmtError", rec |-> r]

\* the entry MgmtErrorList.UnmarshalJSON appends for one decoded record
DecodedEntry(e) ==
    LET r == setXMLName(e)
    IN  IF ReverseClassify(r).kind # "nil" THEN ReverseClassify(r)
        ELSE [kind |-> "*MgmtError", rec |-> r]

\* MgmtErrorList.UnmarshalJSON on the members l.  json.Unmarshal into
\* struct{ErrorList []*MgmtError} fails on text that is not JSON, on a
\* document or an element that is neither an object nor null, and on an
\* element whose decoding fails; the error is returned and l is as it was.
\* A null document decodes to no elements, a null element to a nil pointer.
\* Otherwise l is emptied and the loop takes the elements in wire order:
\* err.setXMLName() on a nil pointer panics, every other element is
\* classified and appended; at a panic the list holds the entries appended
\* so far.
MgmtErrorListUnmarshalJSON(l, doc) ==
    LET arr == IF doc.type = "object" /\ HasMember(doc.members, "error-list")
               THEN MemberValue(doc.members, "error-list")
               ELSE <<>>
        dec == [i \in 1..Len(arr) |->
                   MgmtErrorUnmarshalJSON(ZeroMgmtError, arr[i].members)]
    IN  IF \/ doc.type \in {"malformed", "string"}
           \/ \E i \in 1..Len(arr) : arr[i].type \in {"malformed", "string"}
           \/ \E i \in 1..Len(arr) : arr[i].type = "object" /\ ~dec[i].ok
        THEN [ok |-> FALSE, panic |-> FALSE, errs |-> l]
        ELSE IF \E i \in 1..Len(arr) : arr[i].type = "null"
        THEN LET n == CHOOSE i \in 1..Len(arr) :
                          arr[i].type = "null" /\ \A j \in 1..(i - 1) : arr[j].type # "null"
             IN  [ok |-> FALSE, panic |-> TRUE,
                  errs |-> MgmtErrorListAppend(<<>>,
                               [i \in 1..(n - 1) |-> DecodedEntry(dec[i].rec)])]
        ELSE [ok |-> TRUE, panic |-> FALSE,
              errs |-> MgmtErrorListAppend(<<>>,
                           [i \in 1..Len(arr) |-> DecodedEntry(dec[i].rec)])]

\* strings.Title on the severities used here: the first letter of every word
\* in upper case
Title(s) ==
    CASE s = "error" -> "Error"
      [] s = "warning" -> "Warning"
      [] s = "fatal error" -> "Fatal Error"
      [] OTHER -> s

error_msg_separator == ": "

\* MgmtError.Error with the separator written for an empty Path too
MgmtErrorError_emptyPath(e) ==
    Title(e.Severity) \o error_msg_separator
    \o e.Path \o error_msg_separator
    \o (IF e.Message # "" THEN e.Message ELSE "")

\* MgmtError.Error
MgmtErrorError(e) ==
    Title(e.Severity) \o error_msg_separator
    \o (IF e.Path # "" THEN e.Path \o error_msg_separator ELSE "")
    \o (IF e.Message # "" THEN e.Message ELSE "")

\* xml.Encoder.Encode of one member: a member with MarshalXML encodes its
\* record; a member that has MarshalJSON only is encoded by reflection, as an
\* element named after its Go type
MemberMarshalXML(v) ==
    IF v.kind = "foreignJSONMarshaler"
    THEN Element([Space |-> <<>>, Local |-> <<v.kind>>], "", <<>>)
    ELSE MgmtErrorMarshalXML(v.rec)

\* MgmtErrorList.MarshalXML: the start element it is given is not used, the
\* members are encoded one after the other
MgmtErrorListMarshalXML(l) == [i \in 1..Len(l) |-> MemberMarshalXML(l[i])]

\* a name as the string it is written as
RECURSIVE TokenString(_)
TokenString(k) == IF k = <<>> THEN "" ELSE k[1] \o TokenString(Tail(k))

\* strings.TrimPrefix for the paths given to NewNonUniqueError
TrimPrefix(s, prefix) ==
    CASE prefix = "/" /\ s = "/p/a" -> "p/a"
      [] prefix = "/" /\ s = "/p/b" -> "p/b"
      [] prefix = "/p/" /\ s = "/p/a" -> "a"
      [] prefix = "/p/" /\ s = "/p/b" -> "b"
      [] OTHER -> s

\* natsort.Sort for the names given to NewPathAmbiguousError and of
\* received info tags:
\* the place of each name in natural order
NaturalRank(n) ==
    CASE n = "a" -> 1
      [] n = "a:b" -> 2
      [] n = "b" -> 3
      [] n = "x" -> 4
      [] OTHER -> 5

RECURSIVE natsort(_)
natsort(names) ==
    IF names = <<>> THEN <<>>
    ELSE LET m == CHOOSE i \in 1..Len(names) :
                      \A j \in 1..Len(names) :
                          NaturalRank(names[i]) <= NaturalRank(names[j])
         IN  <<names[m]>>
             \o natsort([j \in 1..(Len(names) - 1) |->
                             IF j < m THEN names[j] ELSE names[j + 1]])

\* the strings of ss with sep between them
RECURSIVE JoinStrings(_, _)
JoinStrings(ss, sep) ==
    IF ss = <<>> THEN ""
    ELSE IF Len(ss) = 1 THEN ss[1]
    ELSE ss[1] \o sep \o JoinStrings(Tail(ss), sep)

\* the result of an Error() call: its string, or a panic
Returned(str) == [panic |-> FALSE, s |-> str]
Panicked == [panic |-> TRUE, s |-> ""]

\* the element error strings with the default rendering for an empty Info
elemErrorString_checked(e) ==
    IF Len(e.Info) = 0 THEN Returned(MgmtErrorError(e))
    ELSE Returned(Title(e.Severity) \o error_msg_separator
                  \o (IF e.Path # "" THEN e.Path ELSE "")
                  \o "/" \o e.Info[1].Value
                  \o (IF e.Message # "" THEN error_msg_separator \o e.Message ELSE ""))

\* missingElemErrorString and unknownElemErrorString, which are the same
\* code: e.Info[0] is read whatever the length of Info
elemErrorString(e) ==
    IF Len(e.Info) = 0 THEN Panicked
    ELSE Returned(Title(e.Severity) \o error_msg_separator
                  \o (IF e.Path # "" THEN e.Path ELSE "")
                  \o "/" \o e.Info[1].Value
                  \o (IF e.Message # "" THEN error_msg_separator \o e.Message ELSE ""))

\* NonUniqueError.Error writing the info values as they are
NonUniqueErrorError_noTrim(e) ==
    IF Len(e.Info) < 2 THEN MgmtErrorError(e)
    ELSE Title(e.Severity) \o error_msg_separator
         \o e.Path \o error_msg_separator
         \o "Non-unique paths "
         \o JoinStrings([i \in 1..Len(e.Info) |-> e.Info[i].Value], ", ")

\* NonUniqueError.Error
NonUniqueErrorError(e) ==
    IF Len(e.Info) < 2 THEN MgmtErrorError(e)
    ELSE Title(e.Severity) \o error_msg_separator
         \o e.Path \o error_msg_separator
         \o "Non-unique paths "
         \o JoinStrings([i \in 1..Len(e.Info) |->
                            TrimPrefix(e.Info[i].Value, e.Path \o "/")], ", ")

\* PathAmbiguousError.Error listing the names in the order of the Info entries
PathAmbiguousErrorError_asBuilt(e) ==
    LET mlist == [i \in 1..Len(e.Info) |-> TokenString(e.Info[i].Local)]
    IN  Title(e.Severity) \o error_msg_separator
        \o (IF e.Path = "" THEN "Ambiguous command"
            ELSE e.Path \o error_msg_separator \o "Ambiguous path")
        \o ", could be one of: "
        \o JoinStrings(mlist, ", ")

\* PathAmbiguousError.Error
PathAmbiguousErrorError(e) ==
    LET mlist == natsort([i \in 1..Len(e.Info) |-> TokenString(e.Info[i].Local)])
    IN  Title(e.Severity) \o error_msg_separator
        \o (IF e.Path = "" THEN "Ambiguous command"
            ELSE e.Path \o error_msg_separator \o "Ambiguous path")
        \o ", could be one of: "
        \o JoinStrings(mlist, ", ")

\* err.Error() of a list member: the wrapper's own method where it has one,
\* else the method of the embedded MgmtError
MemberError(v) ==
    CASE v.kind = "foreignJSONMarshaler" -> Returned(v.text)
      [] v.kind \in {"MissingElementProtocolError", "MissingElementApplicationError",
                     "UnknownElementProtocolError", "UnknownElementApplicationError"}
             -> elemErrorString(v.rec)
      [] v.kind = "NonUniqueError" -> Returned(NonUniqueErrorError(v.rec))
      [] v.kind = "PathAmbiguousError" -> Returned(PathAmbiguousErrorError(v.rec))
      [] OTHER -> Returned(MgmtErrorError(v.rec))

\* pathutil.Makepath for the paths of the element errors here: the elements
\* between the '/'
Makepath(p) ==
    CASE p = "/w/v" -> <<"w", "v">>
      [] p = "/v" -> <<"v">>
      [] p = "/w/" -> <<"w">>
      [] OTHER -> <<p>>

\* errpath
errpath(path) ==
    IF Len(path) < 2 THEN "[" \o JoinStrings(path, " ") \o "]"
    ELSE JoinStrings(SubSeq(path, 1, Len(path) - 1), " ")
         \o " [" \o path[Len(path)] \o "]"

\* v.GetMessage() of a list member that holds a record: the method of
\* UnknownElementProtocolError and UnknownElementApplicationError, which
\* reads e.Info[0], else the method of the embedded MgmtError
\* (PathAmbiguousError has a third one, which is not called here)
MemberGetMessage(v) ==
    IF v.kind \in {"UnknownElementProtocolError", "UnknownElementApplicationError"}
    THEN IF Len(v.rec.Info) = 0 THEN Panicked
         ELSE Returned(errpath(Makepath(v.rec.Path \o "/" \o v.rec.Info[1].Value))
                       \o " is not valid")
    ELSE Returned(v.rec.Message)

\* fmtFn(err) for the Formatter functions handed to CustomError: none (the
\* function CustomError puts in its place), one that gives the name of the
\* member's type, one that gives the same text for every member
Format(fmtFn, v) ==
    CASE fmtFn = "nil" -> MemberError(v)
      [] fmtFn = "typeName" -> Returned(v.kind)
      [] fmtFn = "fixed" -> Returned("-")

\* the loop of Error and CustomError over what each member gives
WriteMembers(rs) ==
    IF \E i \in 1..Len(rs) : rs[i].panic THEN Panicked
    ELSE Returned(JoinStrings([i \in 1..Len(rs) |-> rs[i].s], "\n"))

\* MgmtErrorList.Error with a newline written after every member
MgmtErrorListError_trailing(l) ==
    IF \E i \in 1..Len(l) : MemberError(l[i]).panic THEN Panicked
    ELSE Returned(JoinStrings([i \in 1..Len(l) |-> MemberError(l[i]).s \o "\n"], ""))

\* MgmtErrorList.Error
MgmtErrorListError(l) == WriteMembers([i \in 1..Len(l) |-> MemberError(l[i])])

\* MgmtErrorList.CustomError
MgmtErrorListCustomError(l, fmtFn) ==
    WriteMembers([i \in 1..Len(l) |-> Format(fmtFn, l[i])])

\* ---------------------------------------------------------------------
\* Inputs of the info-tag codec

TagValues == {"", "v"}

\* JSON keys received from the wire: no ':', one ':' with a known and with an
\* unknown prefix, an empty prefix, and more than one ':'
WireKeys ==
    {<<"x">>,
     <<"ietf-yang", ":", "x">>,
     <<"foo", ":", "x">>,
     <<":", "x">>,
     <<"vyatta-yang", ":", "a", ":", "b">>,
     <<"foo", ":", "a", ":", "b">>}

\* JSON objects received from the wire: no member, one member, two members
WireObjects ==
    {<<>>} \cup
    {<<[key |-> k, value |-> v]>> : k \in WireKeys, v \in TagValues} \cup
    {<<[key |-> <<"x">>, value |-> "v"], [key |-> <<"y">>, value |-> "v"]>>}

\* ---------------------------------------------------------------------
\* SpecTag: one info tag through MarshalJSON and UnmarshalJSON

TagInit ==
    /\ infotag = <<>>
    /\ tagjson = <<>>
    /\ tagdec = <<>>

ErrInit ==
    /\ ncerr = <<>>
    /\ ejson = <<>>
    /\ edec = <<>>
    /\ exml = <<>>
    /\ exdec = <<>>
    /\ cls = <<>>

ListInit ==
    /\ errs = <<>>
    /\ ins = <<>>
    /\ wire = <<>>
    /\ unmarshal = <<>>

FnInit ==
    /\ call = <<>>
    /\ ret = <<>>

\* the package variables as the init functions of ncerror.go, yangerror.go
\* and vyerror.go and the map literals leave them
PackageTables ==
    [ncErrTable |-> ncErrTable, yangErrTable |-> yangErrTable,
     vyErrTable |-> vyErrTable, ncerrtagmap |-> ncerrtagmap,
     errtypemap |-> errtypemap, errtagmap |-> errtagmap,
     yerrapptagmap |-> yerrapptagmap, vyErrTagMap |-> vyErrTagMap,
     vyErrAppTagMap |-> vyErrAppTagMap, modmap |-> modmap, nsmap |-> nsmap]

TableInit == tables = PackageTables

Init == TagInit /\ ErrInit /\ ListInit /\ FnInit /\ TableInit

\* tag := NewMgmtErrorInfoTag(ns, name, value)
TagNew ==
    /\ infotag = <<>> /\ tagjson = <<>>
    /\ \E ns \in {<<>>, netconf_namespace, yang_namespace, VyattaNamespace,
                  <<"foo">>, <<"urn", ":", "bad", ":", "namespace">>},
          n \in {<<>>, <<"x">>, <<"a", ":", "b">>}, v \in TagValues :
           infotag' = <<NewMgmtErrorInfoTag(ns, n, v)>>
    /\ UNCHANGED <<tagjson, tagdec, errVars, listVars, fnVars, tables>>

\* json.Marshal(tag): MgmtErrorInfoTag.MarshalJSON
TagMarshalJSON ==
    /\ infotag # <<>> /\ tagjson = <<>>
    /\ tagjson' = <<[from |-> "marshal", obj |-> <<InfoTagMarshalJSON(infotag[1])>>]>>
    /\ UNCHANGED <<infotag, tagdec, errVars, listVars, fnVars, tables>>

\* an info object arrives from a peer
TagReceiveJSON ==
    /\ infotag = <<>> /\ tagjson = <<>>
    /\ \E obj \in WireObjects :
           tagjson' = <<[from |-> "wire", obj |-> obj]>>
    /\ UNCHANGED <<infotag, tagdec, errVars, listVars, fnVars, tables>>

\* json.Unmarshal(tagjson, &i) with a zero i: MgmtErrorInfoTag.UnmarshalJSON
TagUnmarshalJSON ==
    /\ tagjson # <<>>
    /\ tagdec = <<>>
    /\ tagdec' = <<InfoTagUnmarshalJSON(ZeroInfoTag, tagjson[1].obj)>>
    /\ UNCHANGED <<infotag, tagjson, errVars, listVars, fnVars, tables>>

TagNext == TagNew \/ TagMarshalJSON \/ TagReceiveJSON \/ TagUnmarshalJSON

SpecTag == Init /\ [][TagNext]_vars

\* ---------------------------------------------------------------------
\* Inputs of the constructors

\* sequences over S of length at most n
SeqsUpTo(S, n) == UNION {[1..k -> S] : k \in 0..n}

\* values of the string arguments badAttr, badElem, badNS, sess, name, out
ArgValues == {"", "v"}

\* values of a path argument that is a string
Paths == {"", "/p"}

\* values of a path argument that is a list of elements
PathLists == {<<>>, <<"s">>}

\* the matches map of NewPathAmbiguousError, as the sequences in which an
\* iteration can visit it: no name twice, any order; a name is plain or
\* contains ':'
MatchSeqs ==
    {m \in SeqsUpTo([name : {<<"a">>, <<"b">>, <<"a", ":", "b">>}, value : {"v"}], MaxInfo) :
        \A i, j \in 1..Len(m) : m[i].name = m[j].name => i = j}

\* a constructor call: the constructor's name with the typed error it returns
Call(name, t) == [ctor |-> name, kind |-> t.kind, rec |-> t.rec]

NcCalls ==
    {Call(c.name, NewNcTyped(c, a, b)) :
        c \in {d \in NcConstructors : d.shape \in {"attr", "ns"}},
        a \in ArgValues, b \in ArgValues}
    \cup
    {Call(c.name, NewNcTyped(c, a, "")) :
        c \in {d \in NcConstructors : d.shape \in {"elem", "lock"}},
        a \in ArgValues}
    \cup
    {Call(c.name, NewNcTyped(c, "", "")) :
        c \in {d \in NcConstructors : d.shape = "plain"}}

YangCalls ==
    {Call("NewNonUniqueError", NewNonUniqueError(ps)) :
        ps \in SeqsUpTo({"/p/a", "/p/b"}, MaxInfo)}
    \cup {Call("NewTooManyElementsError", NewTooManyElementsError(p)) : p \in Paths}
    \cup {Call("NewTooFewElementsError", NewTooFewElementsError(p)) : p \in Paths}
    \cup {Call("NewMustViolationError", NewMustViolationError)}
    \cup {Call("NewInstanceRequiredError", NewInstanceRequiredError(p)) : p \in Paths}
    \cup {Call("NewLeafrefMismatchError", NewLeafrefMismatchError(p, q)) :
              p \in Paths, q \in Paths}
    \cup {Call("NewMissingChoiceError", NewMissingChoiceError(p, n)) :
              p \in Paths, n \in ArgValues}
    \cup {Call("NewInsertFailedError", NewInsertFailedError)}

VyattaCalls ==
    {Call("NewExecError", NewExecError(p, out)) : p \in PathLists, out \in ArgValues}
    \cup {Call("NewPathAmbiguousError", NewPathAmbiguousError(p, m)) :
              p \in PathLists, m \in MatchSeqs}

\* every call of a public New...Error constructor within the input sets
ConstructorCalls == NcCalls \cup YangCalls \cup VyattaCalls

\* ---------------------------------------------------------------------
\* SpecError: one typed error from its constructor through the encoders, the
\* decoders and the reverse classifier

\* e := New...Error(...)
Construct ==
    /\ ncerr = <<>>
    /\ \E c \in ConstructorCalls : ncerr' = <<c>>
    /\ UNCHANGED <<ejson, edec, exml, exdec, cls, tagVars, listVars, fnVars, tables>>

\* e.Path = p, before anything is encoded
AssignPath ==
    /\ ncerr # <<>> /\ ejson = <<>> /\ exml = <<>>
    /\ \E p \in {"", "/q"} : ncerr' = <<[ncerr[1] EXCEPT !.rec.Path = p]>>
    /\ UNCHANGED <<ejson, edec, exml, exdec, cls, tagVars, listVars, fnVars, tables>>

\* e.Message = m, before anything is encoded
AssignMessage ==
    /\ ncerr # <<>> /\ ejson = <<>> /\ exml = <<>>
    /\ \E m \in {"", "boom"} : ncerr' = <<[ncerr[1] EXCEPT !.rec.Message = m]>>
    /\ UNCHANGED <<ejson, edec, exml, exdec, cls, tagVars, listVars, fnVars, tables>>

\* e.Severity = s, before anything is encoded
AssignSeverity ==
    /\ ncerr # <<>> /\ ejson = <<>> /\ exml = <<>>
    /\ \E sv \in {"", "warning"} : ncerr' = <<[ncerr[1] EXCEPT !.rec.Severity = sv]>>
    /\ UNCHANGED <<ejson, edec, exml, exdec, cls, tagVars, listVars, fnVars, tables>>

\* json.Marshal(e)
ErrMarshalJSON ==
    /\ ncerr # <<>> /\ ejson = <<>>
    /\ ejson' = <<MgmtErrorMarshalJSON(ncerr[1].rec)>>
    /\ UNCHANGED <<ncerr, edec, exml, exdec, cls, tagVars, listVars, fnVars, tables>>

\* json.Unmarshal(ejson, &w) for a zero wrapper w of e's type
ErrUnmarshalJSON ==
    /\ ejson # <<>> /\ edec = <<>>
    /\ edec' = <<WrapperUnmarshalJSON(ejson[1])>>
    /\ UNCHANGED <<ncerr, ejson, exml, exdec, cls, tagVars, listVars, fnVars, tables>>

\* the decoded record through getVyattaError, getYangError, getNetconfError
ErrClassify ==
    /\ edec # <<>> /\ edec[1].ok /\ cls = <<>>
    /\ cls' = <<ReverseClassify(edec[1].rec)>>
    /\ UNCHANGED <<ncerr, ejson, edec, exml, exdec, tagVars, listVars, fnVars, tables>>

\* an element name the XML encoder can write: not empty, no ':'
XMLNameOK(n) == Len(n) = 1 /\ n[1] # ":"

\* xml.Marshal(e)
ErrMarshalXML ==
    /\ ncerr # <<>> /\ exml = <<>>
    /\ \A i \in 1..Len(ncerr[1].rec.Info) : XMLNameOK(ncerr[1].rec.Info[i].Local)
    /\ exml' = <<MgmtErrorMarshalXML(ncerr[1].rec)>>
    /\ UNCHANGED <<ncerr, ejson, edec, exdec, cls, tagVars, listVars, fnVars, tables>>

\* xml.Unmarshal(exml, &r) for a zero MgmtError r
ErrUnmarshalXML ==
    /\ exml # <<>> /\ exdec = <<>>
    /\ exdec' = <<MgmtErrorUnmarshalXML(ZeroMgmtError, exml[1])>>
    /\ UNCHANGED <<ncerr, ejson, edec, exml, cls, tagVars, listVars, fnVars, tables>>

ErrNext ==
    \/ Construct
    \/ AssignPath
    \/ AssignMessage
    \/ AssignSeverity
    \/ ErrMarshalJSON
    \/ ErrUnmarshalJSON
    \/ ErrClassify
    \/ ErrMarshalXML
    \/ ErrUnmarshalXML

SpecError == Init /\ [][ErrNext]_vars

\* ---------------------------------------------------------------------
\* Inputs of the list

\* genTestMgmtError(n) of the package's tests, for n = 1
genTestMgmtError ==
    [kind |-> "*testMgmtError",
     rec |-> [newMgmtError EXCEPT !.Severity = "error",
                                  !.Typ = errtype_String("application"),
                                  !.Tag = ncerrtag_String("operation_failed"),
                                  !.Path = "/path/1",
                                  !.Message = "Message 1"]]

\* the typed errors given to a list: every YANG and vendor constructor and
\* one base-protocol constructor of each argument shape
ListCalls ==
    {[kind |-> c.kind, rec |-> c.rec] : c \in
        {d \in ConstructorCalls :
            \/ d.ctor \in {"NewOperationFailedApplicationError", "NewTooBigRpcError",
                           "NewMissingAttrRpcError", "NewUnknownElementProtocolError",
                           "NewUnknownNamespaceApplicationError", "NewLockDeniedError",
                           "NewDataMissingError"}
               /\ \A i \in 1..Len(d.rec.Info) : d.rec.Info[i].Value = "v"
            \/ d.ctor \in {"NewTooManyElementsError", "NewTooFewElementsError",
                           "NewMustViolationError", "NewInstanceRequiredError",
                           "NewInsertFailedError"}
               /\ d.rec.Path \in {"", "/p"}
            \/ d.ctor = "NewLeafrefMismatchError" /\ d.rec.Path = "/p"
            \/ d.ctor = "NewMissingChoiceError" /\ d.rec.Path = "/p"
               /\ d.rec.Info[1].Value = "v"
            \/ d.ctor = "NewNonUniqueError" /\ Len(d.rec.Info) >= 1
               /\ \A i, j \in 1..Len(d.rec.Info) :
                      i < j => d.rec.Info[i].Value # d.rec.Info[j].Value
            \/ d.ctor = "NewExecError" /\ d.rec.Path = "/s" /\ d.rec.Message = "v"
            \/ d.ctor = "NewPathAmbiguousError" /\ d.rec.Path = "/s"
               /\ Len(d.rec.Info) = 1}}

\* the other values given to a list
ForeignValues ==
    {genTestMgmtError,
     [kind |-> "*MgmtError",
      rec |-> [newMgmtError EXCEPT !.Tag = "bogus", !.Typ = "rpc",
                                   !.Severity = "warning", !.Path = "/r",
                                   !.Message = "raw"]],
     [kind |-> "foreignFormattable", msg |-> "foreign", path |-> "/f"],
     [kind |-> "foreignFormattable", msg |-> "", path |-> ""],
     [kind |-> "foreignJSONMarshaler", text |-> "j"],
     [kind |-> "*errors.errorString", text |-> "This is not a MgmtError error"],
     [kind |-> "*errors.errorString", text |-> ""]}

\* records a peer can send: tags, app-tags and types inside and outside the
\* three catalogs, in every combination, and element errors with and without
\* the info entry their wrappers read
WireRecords ==
    {[ZeroMgmtError EXCEPT !.Tag = t, !.AppTag = a, !.Typ = ty,
                           !.Severity = "warning", !.Path = "/w",
                           !.Message = "wire",
                           !.Info = <<[Space |-> yang_namespace,
                                       Local |-> <<"x">>, Value |-> "v"]>>] :
        t \in {"operation-failed", "data-missing", "bad-attribute", "lock-denied",
               "too-big", "bogus"},
        a \in {"", "exec-failed", "path-ambiguous", "must-violation",
               "instance-required", "missing-choice", "missing-instance", "bogus"},
        ty \in {"application", "protocol", "rpc", "bogus"}}
    \cup
    {[ZeroMgmtError EXCEPT !.Tag = t, !.Typ = ty, !.Severity = "error",
                           !.Path = "/w", !.Info = i] :
        t \in {"unknown-element", "missing-element"},
        ty \in {"application", "protocol"},
        i \in {<<>>, <<[Space |-> <<>>, Local |-> <<"bad-element">>, Value |-> "v"]>>}}

\* a received error-list document with the given records
WireDocument(rs) ==
    JSONObject(<<[key |-> "error-list",
                  value |-> [i \in 1..Len(rs) |-> JSONObject(MgmtErrorMarshalJSON(rs[i]))]]>>)

\* other documents a peer can send: text that is not JSON, documents and
\* elements of the wrong shape, null, info objects without exactly one key
ErrorListOf(elems) == JSONObject(<<[key |-> "error-list", value |-> elems]>>)

InfoOf(objs) ==
    JSONObject(MgmtErrorMarshalJSON(genTestMgmtError.rec)
               \o <<[key |-> "error-info", value |-> objs]>>)

OtherDocuments ==
    {JSONOther("malformed"), JSONOther("null"), JSONOther("string"), JSONObject(<<>>),
     ErrorListOf(<<JSONObject(<<>>)>>),
     ErrorListOf(<<JSONOther("string")>>),
     ErrorListOf(<<JSONOther("null")>>),
     ErrorListOf(<<JSONObject(MgmtErrorMarshalJSON(genTestMgmtError.rec)), JSONOther("null")>>),
     ErrorListOf(<<JSONObject(MgmtErrorMarshalJSON(genTestMgmtError.rec)), JSONOther("string")>>),
     ErrorListOf(<<InfoOf(<< <<>> >>)>>),
     ErrorListOf(<<InfoOf(<< <<[key |-> <<"x">>, value |-> "v"],
                             [key |-> <<"y">>, value |-> "v"]>> >>)>>),
     ErrorListOf(<<InfoOf(<< <<[key |-> <<"ietf-yang", ":", "x">>, value |-> "v"]>> >>)>>)}

\* longest error list received from a peer
MaxWire == 1

\* ---------------------------------------------------------------------
\* Spec: an error list is built and encoded, or a document is received, and
\* the document is decoded into a second list

\* MgmtErrorListAppend forgetting the members the list held
ListAppend_replaces ==
    /\ wire = <<>> /\ call = <<>>
    /\ \E vs \in SeqsUpTo((ListCalls \cup ForeignValues), MaxList - Len(errs)) :
           /\ Len(vs) > 0
           /\ errs' = MgmtErrorListAppend(<<>>, vs)
           /\ ins' = ins \o vs
    /\ UNCHANGED <<wire, unmarshal, tagVars, errVars, fnVars, tables>>

\* errs.MgmtErrorListAppend(vs...)
ListAppend ==
    /\ wire = <<>> /\ call = <<>>
    /\ \E vs \in SeqsUpTo((ListCalls \cup ForeignValues), MaxList - Len(errs)) :
           /\ Len(vs) > 0
           /\ errs' = MgmtErrorListAppend(errs, vs)
           /\ ins' = ins \o vs
    /\ UNCHANGED <<wire, unmarshal, tagVars, errVars, fnVars, tables>>

\* json.Marshal(errs)
ListMarshalJSON ==
    /\ wire = <<>> /\ call = <<>>
    /\ wire' = <<[from |-> "marshal", doc |-> MgmtErrorListMarshalJSON(errs)]>>
    /\ UNCHANGED <<errs, ins, unmarshal, tagVars, errVars, fnVars, tables>>

\* an error-list document arrives from a peer
ListReceiveJSON ==
    /\ wire = <<>> /\ errs = <<>> /\ call = <<>>
    /\ \E rs \in SeqsUpTo(WireRecords, MaxWire) :
           wire' = <<[from |-> "wire", doc |-> WireDocument(rs), recs |-> rs]>>
    /\ UNCHANGED <<errs, ins, unmarshal, tagVars, errVars, fnVars, tables>>

\* a document of any other kind arrives from a peer
ListReceiveOther ==
    /\ wire = <<>> /\ errs = <<>> /\ call = <<>>
    /\ \E d \in OtherDocuments : wire' = <<[from |-> "peer", doc |-> d]>>
    /\ UNCHANGED <<errs, ins, unmarshal, tagVars, errVars, fnVars, tables>>

\* json.Unmarshal(wire, &unmarshal) for an empty list unmarshal
ListUnmarshalJSON ==
    /\ wire # <<>> /\ unmarshal = <<>> /\ call = <<>>
    /\ unmarshal' = <<MgmtErrorListUnmarshalJSON(<<>>, wire[1].doc)>>
    /\ UNCHANGED <<errs, ins, wire, tagVars, errVars, fnVars, tables>>

\* the three calls below do not change the list; a behaviour ends with the
\* first of them, so that its result stands next to the list it was made on

\* xml.Marshal(errs)
ListMarshalXML ==
    /\ wire = <<>> /\ call = <<>>
    /\ call' = <<[fn |-> "MarshalXML", errs |-> errs]>>
    /\ ret' = <<MgmtErrorListMarshalXML(errs)>>
    /\ UNCHANGED <<tagVars, errVars, listVars, tables>>

\* errs.Error()
ListError ==
    /\ wire = <<>> /\ call = <<>>
    /\ call' = <<[fn |-> "ListError", errs |-> errs]>>
    /\ ret' = <<MgmtErrorListError(errs)>>
    /\ UNCHANGED <<tagVars, errVars, listVars, tables>>

\* errs.CustomError(fmtFn)
ListCustomError ==
    /\ wire = <<>> /\ call = <<>>
    /\ \E f \in {"nil", "typeName", "fixed"} :
           /\ call' = <<[fn |-> "CustomError", errs |-> errs, fmtFn |-> f]>>
           /\ ret' = <<MgmtErrorListCustomError(errs, f)>>
    /\ UNCHANGED <<tagVars, errVars, listVars, tables>>

\* unmarshal.Errors()[i].Error() and .GetMessage() on a decoded entry
ListDecodedError ==
    /\ unmarshal # <<>> /\ unmarshal[1].ok /\ call = <<>>
    /\ \E i \in 1..Len(unmarshal[1].errs) :
           \/ /\ call' = <<[fn |-> "DecodedError", v |-> unmarshal[1].errs[i]]>>
              /\ ret' = <<MemberError(unmarshal[1].errs[i])>>
           \/ /\ unmarshal[1].errs[i].kind # "PathAmbiguousError"
              /\ call' = <<[fn |-> "DecodedGetMessage", v |-> unmarshal[1].errs[i]]>>
              /\ ret' = <<MemberGetMessage(unmarshal[1].errs[i])>>
    /\ UNCHANGED <<tagVars, errVars, listVars, tables>>

\* json.Unmarshal(b, &w) for a zero wrapper w and the encoding b of a member
ListMemberUnmarshalJSON ==
    /\ wire = <<>> /\ call = <<>>
    /\ \E i \in 1..Len(errs) :
           /\ errs[i].kind \notin ForeignKinds
           /\ call' = <<[fn |-> "WrapperUnmarshalJSON", v |-> errs[i]]>>
           /\ ret' = <<WrapperUnmarshalJSON(MemberMarshalJSON(errs[i]))>>
    /\ UNCHANGED <<tagVars, errVars, listVars, tables>>

\* json.Unmarshal(wire, &l) for a list l that has no, one or two members
ListUnmarshalOver ==
    /\ wire # <<>> /\ unmarshal = <<>> /\ call = <<>>
    /\ \E l \in {<<>>, <<genTestMgmtError>>,
                 <<NewOperationFailedApplicationError, genTestMgmtError>>} :
           /\ call' = <<[fn |-> "UnmarshalJSON", errs |-> l, doc |-> wire[1].doc]>>
           /\ ret' = <<MgmtErrorListUnmarshalJSON(l, wire[1].doc)>>
    /\ UNCHANGED <<tagVars, errVars, listVars, tables>>

Next ==
    \/ ListAppend
    \/ ListMarshalJSON
    \/ ListReceiveJSON
    \/ ListReceiveOther
    \/ ListUnmarshalJSON
    \/ ListMarshalXML
    \/ ListError
    \/ ListCustomError
    \/ ListDecodedError
    \/ ListMemberUnmarshalJSON
    \/ ListUnmarshalOver

Spec == Init /\ [][Next]_vars

\* ---------------------------------------------------------------------
\* SpecLookup: the functions of the package that only read their arguments,
\* each called on its own; a run makes one call

\* type strings: the four layers and others
TypeStrings == {"transport", "rpc", "protocol", "application", "bogus", ""}

\* records handed to the lookups: every base-protocol tag and others, every
\* type string, app-tags of the YANG and vendor catalogs and others
LookupTags == DOMAIN ncerrtagmap \cup {"bogus", ""}
LookupAppTags == {"", "exec-failed", "must-violation", "missing-choice", "bogus"}
LookupRecords ==
    {[newMgmtError EXCEPT !.Tag = t, !.Typ = ty, !.AppTag = a] :
        t \in LookupTags, ty \in TypeStrings, a \in LookupAppTags}

\* records handed to Error(): severities, paths and messages, empty or not
ErrorRecords ==
    {[newMgmtError EXCEPT !.Severity = s, !.Path = p, !.Message = m] :
        s \in {"error", "warning", "fatal error", ""}, p \in {"", "/p"}, m \in {"", "boom"}}

\* typed errors whose Error() is called: the result of a constructor, as it
\* is or with Path assigned afterwards
ErrorCalls ==
    {[ctor |-> c.ctor, v |-> [kind |-> c.kind, rec |-> c.rec]] :
        c \in {d \in ConstructorCalls :
                  d.ctor \in {"NewNonUniqueError", "NewPathAmbiguousError",
                              "NewUnknownElementProtocolError",
                              "NewMissingElementApplicationError",
                              "NewTooManyElementsError"}}}
    \cup
    {[ctor |-> c.ctor, v |-> [kind |-> c.kind, rec |-> [c.rec EXCEPT !.Path = p]]] :
        c \in {d \in ConstructorCalls :
                  d.ctor \in {"NewNonUniqueError", "NewPathAmbiguousError"}},
        p \in {"/p", "/q"}}

\* the records a set...Error method is called on: a new one and one whose
\* fields all hold something
SetReceivers ==
    {newMgmtError,
     [newMgmtError EXCEPT !.Tag = "old-tag", !.Typ = "rpc", !.Severity = "warning",
                          !.Message = "old message", !.AppTag = "old-app-tag",
                          !.Path = "/old",
                          !.Info = <<[Space |-> <<>>, Local |-> <<"old">>,
                                      Value |-> "v"]>>]}

\* the info argument: nil or a list
SetInfos == {<<>>, << <<>> >>,
             << <<[Space |-> <<>>, Local |-> <<"new">>, Value |-> "v"]>> >>}

\* e.setNcError(tag, typ, "set-app-tag", "/set", info)
CallSetNcError ==
    /\ call = <<>>
    /\ \E e \in SetReceivers, tag \in DOMAIN ncErrTable \cup {"ncerrtag(19)"},
          typ \in TypeStrings, info \in SetInfos :
           /\ call' = <<[fn |-> "setNcError", e |-> e, tag |-> tag, typ |-> typ,
                         apptag |-> "set-app-tag", path |-> "/set", info |-> info]>>
           /\ ret' = <<setNcError(e, tag, typ, "set-app-tag", "/set", info)>>
    /\ UNCHANGED <<tagVars, errVars, listVars, tables>>

\* e.setYangError(tag, "set-app-tag", "/set", yangPath, info)
CallSetYangError ==
    /\ call = <<>>
    /\ \E e \in SetReceivers, tag \in DOMAIN yangErrTable \cup {"yerrtag(3)"},
          info \in SetInfos :
           /\ call' = <<[fn |-> "setYangError", e |-> e, tag |-> tag, typ |-> "application",
                         apptag |-> "set-app-tag", path |-> "/set", info |-> info]>>
           /\ ret' = <<setYangError(e, tag, "set-app-tag", "/set", "/yang", info)>>
    /\ UNCHANGED <<tagVars, errVars, listVars, tables>>

\* e.setVyattaError(tag, "set-app-tag", "/set", info)
CallSetVyattaError ==
    /\ call = <<>>
    /\ \E e \in SetReceivers, tag \in DOMAIN vyErrTable \cup {"vyErrTag(1)"},
          info \in SetInfos :
           /\ call' = <<[fn |-> "setVyattaError", e |-> e, tag |-> tag, typ |-> "application",
                         apptag |-> "set-app-tag", path |-> "/set", info |-> info]>>
           /\ ret' = <<setVyattaError(e, tag, "set-app-tag", "/set", info)>>
    /\ UNCHANGED <<tagVars, errVars, listVars, tables>>

\* getNetconfError(r) with a lookup that leaves an entry for a tag that
\* ncerrtagmap did not have
CallGetNetconfError_inserting ==
    /\ call = <<>>
    /\ \E r \in LookupRecords :
           /\ call' = <<[fn |-> "getNetconfError", rec |-> r]>>
           /\ ret' = <<getNetconfError(r)>>
           /\ tables' = IF r.Tag \in DOMAIN tables.ncerrtagmap THEN tables
                         ELSE [tables EXCEPT !.ncerrtagmap = @ @@ (r.Tag :> "ncerrtag(0)")]
    /\ UNCHANGED <<tagVars, errVars, listVars>>

\* getNetconfError(r)
CallGetNetconfError ==
    /\ call = <<>>
    /\ \E r \in LookupRecords :
           /\ call' = <<[fn |-> "getNetconfError", rec |-> r]>>
           /\ ret' = <<getNetconfError(r)>>
    /\ UNCHANGED <<tagVars, errVars, listVars, tables>>

\* getYangError(r)
CallGetYangError ==
    /\ call = <<>>
    /\ \E r \in LookupRecords :
           /\ call' = <<[fn |-> "getYangError", rec |-> r]>>
           /\ ret' = <<getYangError(r)>>
    /\ UNCHANGED <<tagVars, errVars, listVars, tables>>

\* getVyattaError(r)
CallGetVyattaError ==
    /\ call = <<>>
    /\ \E r \in LookupRecords :
           /\ call' = <<[fn |-> "getVyattaError", rec |-> r]>>
           /\ ret' = <<getVyattaError(r)>>
    /\ UNCHANGED <<tagVars, errVars, listVars, tables>>

\* the map lookups the three classifiers start with: is t a key of the tag
\* map, is a a key of the app-tag map
CallTagMaps ==
    /\ call = <<>>
    /\ \E t \in LookupTags \cup DOMAIN errtagmap \cup DOMAIN vyErrTagMap,
          a \in LookupAppTags \cup DOMAIN yerrapptagmap \cup DOMAIN vyErrAppTagMap :
           /\ call' = <<[fn |-> "tagmaps", tag |-> t, apptag |-> a]>>
           /\ ret' = <<[nc |-> t \in DOMAIN ncerrtagmap,
                        yang |-> t \in DOMAIN errtagmap,
                        vy |-> t \in DOMAIN vyErrTagMap,
                        yangapp |-> a \in DOMAIN yerrapptagmap,
                        vyapp |-> a \in DOMAIN vyErrAppTagMap]>>
    /\ UNCHANGED <<tagVars, errVars, listVars, tables>>

\* r.Error() on a MgmtError
CallError ==
    /\ call = <<>>
    /\ \E r \in ErrorRecords :
           /\ call' = <<[fn |-> "Error", rec |-> r]>>
           /\ ret' = <<MgmtErrorError(r)>>
    /\ UNCHANGED <<tagVars, errVars, listVars, tables>>

\* NewLeafrefMismatchError(path, lrefPath)
CallNewLeafrefMismatchError ==
    /\ call = <<>>
    /\ \E p \in Paths, x \in {"", "/p", "/r"} :
           /\ call' = <<[fn |-> "NewLeafrefMismatchError", path |-> p, lrefPath |-> x]>>
           /\ ret' = <<NewLeafrefMismatchError(p, x)>>
    /\ UNCHANGED <<tagVars, errVars, listVars, tables>>

\* v.Error() on a typed error
CallMemberError ==
    /\ call = <<>>
    /\ \E c \in ErrorCalls :
           /\ call' = <<[fn |-> "MemberError", ctor |-> c.ctor, v |-> c.v]>>
           /\ ret' = <<MemberError(c.v)>>
    /\ UNCHANGED <<tagVars, errVars, listVars, tables>>

LookupNext ==
    \/ CallSetNcError
    \/ CallSetYangError
    \/ CallSetVyattaError
    \/ CallGetNetconfError
    \/ CallGetYangError
    \/ CallGetVyattaError
    \/ CallTagMaps
    \/ CallError
    \/ CallMemberError
    \/ CallNewLeafrefMismatchError

SpecLookup == Init /\ [][LookupNext]_vars

\* ---------------------------------------------------------------------
\* Properties of the info-tag codec (SpecTag)

\* the key that MarshalJSON produced for infotag, when it has run
MarshalledKey == tagjson[1].obj[1].key
TagMarshalled == tagjson # <<>> /\ tagjson[1].from = "marshal"

\* position of the first ':' of k, 0 when k has none
FirstColon(k) ==
    IF \E i \in 1..Len(k) : k[i] = ":"
    THEN CHOOSE i \in 1..Len(k) : k[i] = ":" /\ \A j \in 1..(i - 1) : k[j] # ":"
    ELSE 0

\* the namespace the static table gives for a module prefix, the prefix itself
\* when the table does not have it
PrefixNamespace(p) ==
    CASE p = <<"ietf-netconf">> -> netconf_namespace
      [] p = <<"ietf-yang">> -> yang_namespace
      [] p = <<"vyatta-yang">> -> VyattaNamespace
      [] OTHER -> p

\* C8 as stated: the key of a tag whose namespace is in the static table is
\* "<module>:<local-name>"; the key of a tag whose namespace is not in the
\* table is the local name alone.
C8_Unprefixed ==
    TagMarshalled =>
        /\ infotag[1].Space = netconf_namespace =>
               MarshalledKey = <<"ietf-netconf", ":">> \o infotag[1].Local
        /\ infotag[1].Space = yang_namespace =>
               MarshalledKey = <<"ietf-yang", ":">> \o infotag[1].Local
        /\ infotag[1].Space = VyattaNamespace =>
               MarshalledKey = <<"vyatta-yang", ":">> \o infotag[1].Local
        /\ infotag[1].Space \notin {netconf_namespace, yang_namespace, VyattaNamespace} =>
               MarshalledKey = infotag[1].Local

\* C8 amended: the key of a tag whose namespace is in the static table is
\* "<module>:<local-name>"; the key of a tag with a non-empty namespace that is
\* not in the table is "<namespace>:<local-name>", the namespace itself being
\* the prefix; only a tag with an empty namespace has the local name alone as
\* its key.  The value of the member is the tag's Value.
C8_NamespacePrefix ==
    TagMarshalled =>
        /\ Len(tagjson[1].obj) = 1
        /\ tagjson[1].obj[1].value = infotag[1].Value
        /\ infotag[1].Space = netconf_namespace =>
               MarshalledKey = <<"ietf-netconf", ":">> \o infotag[1].Local
        /\ infotag[1].Space = yang_namespace =>
               MarshalledKey = <<"ietf-yang", ":">> \o infotag[1].Local
        /\ infotag[1].Space = VyattaNamespace =>
               MarshalledKey = <<"vyatta-yang", ":">> \o infotag[1].Local
        /\ (/\ infotag[1].Space \notin {netconf_namespace, yang_namespace, VyattaNamespace}
            /\ infotag[1].Space # <<>>) =>
               MarshalledKey = infotag[1].Space \o <<":">> \o infotag[1].Local
        /\ infotag[1].Space = <<>> => MarshalledKey = infotag[1].Local

\* a tag with a namespace outside the table has been encoded
C8_Witness ==
    /\ TagMarshalled
    /\ infotag[1].Space = <<"urn", ":", "bad", ":", "namespace">>
    /\ infotag[1].Local = <<"x">>
    /\ MarshalledKey = <<"urn", ":", "bad", ":", "namespace", ":", "x">>

\* C9: UnmarshalJSON splits the key at its first ':': the part before it,
\* mapped through the static table (kept literally when the table does not
\* have it), is the namespace and everything after it is the local name, also
\* for a key with more than one ':'; a key with no ':' gives an empty
\* namespace and the whole key as local name.
C9_SplitAtFirstColon ==
    (tagdec # <<>> /\ Len(tagjson[1].obj) = 1) =>
        LET k == tagjson[1].obj[1].key
            p == FirstColon(k)
        IN  /\ tagdec[1].ok
            /\ tagdec[1].tag.Value = tagjson[1].obj[1].value
            /\ p = 0 => /\ tagdec[1].tag.Space = <<>>
                        /\ tagdec[1].tag.Local = k
            /\ p > 0 => /\ tagdec[1].tag.Space = PrefixNamespace(SubSeq(k, 1, p - 1))
                        /\ tagdec[1].tag.Local = SubSeq(k, p + 1, Len(k))

\* ---------------------------------------------------------------------
\* Properties of list decoding (Spec)

\* a received document has been decoded
WireDecoded == wire # <<>> /\ wire[1].from = "wire" /\ unmarshal # <<>>

\* the vendor and YANG pairs (tag, app-tag) with the wrapper of each
VendorWrapper ==
    (<<"operation-failed", "exec-failed">> :> "ExecError") @@
    (<<"operation-failed", "path-ambiguous">> :> "PathAmbiguousError")

YangWrapper ==
    (<<"operation-failed", "data-not-unique">> :> "NonUniqueError") @@
    (<<"operation-failed", "too-many-elements">> :> "TooManyElementsError") @@
    (<<"operation-failed", "too-few-elements">> :> "TooFewElementsError") @@
    (<<"operation-failed", "must-violation">> :> "MustViolationError") @@
    (<<"data-missing", "instance-required">> :> "InstanceRequiredError") @@
    (<<"data-missing", "missing-choice">> :> "MissingChoiceError") @@
    (<<"bad-attribute", "missing-instance">> :> "InsertFailedError")

\* C1: in list decoding a record whose (Tag, AppTag) is in the vendor catalog
\* becomes the vendor wrapper whatever its Type; otherwise a record whose
\* (Tag, AppTag) is in the YANG catalog becomes the YANG wrapper; any other
\* entry (a base-protocol wrapper or the generic one) is only produced when
\* both lookups miss.  The wrapper holds the decoded record.
C1_Precedence ==
    WireDecoded =>
        /\ unmarshal[1].ok
        /\ Len(unmarshal[1].errs) = Len(wire[1].recs)
        /\ \A i \in 1..Len(wire[1].recs) :
               LET r == wire[1].recs[i]
                   k == <<r.Tag, r.AppTag>>
                   entry == unmarshal[1].errs[i]
               IN  /\ k \in DOMAIN VendorWrapper =>
                          /\ entry.kind = VendorWrapper[k]
                          /\ entry.rec.Typ = r.Typ
                   /\ (k \notin DOMAIN VendorWrapper /\ k \in DOMAIN YangWrapper) =>
                          /\ entry.kind = YangWrapper[k]
                          /\ entry.rec.Typ = r.Typ
                   /\ (k \notin DOMAIN VendorWrapper /\ k \notin DOMAIN YangWrapper) =>
                          /\ entry.kind \notin {VendorWrapper[p] : p \in DOMAIN VendorWrapper}
                          /\ entry.kind \notin {YangWrapper[p] : p \in DOMAIN YangWrapper}

\* operation-failed / application / exec-failed has been decoded into an
\* ExecError
C1_Witness ==
    /\ WireDecoded
    /\ Len(wire[1].recs) = 1
    /\ wire[1].recs[1].Tag = "operation-failed"
    /\ wire[1].recs[1].Typ = "application"
    /\ wire[1].recs[1].AppTag = "exec-failed"
    /\ unmarshal[1].errs[1].kind = "ExecError"

\* the list errs has been encoded and the encoding decoded
ListRoundTripped == wire # <<>> /\ wire[1].from = "marshal" /\ unmarshal # <<>>

\* C2: a list built from errors of the public constructors and from plain
\* errors is deep-equal to the decoding of its JSON encoding: same length,
\* same order, same wrapper type and same record for every member.
C2_ListRoundTrip ==
    (/\ ListRoundTripped
     /\ \A i \in 1..Len(ins) : ins[i] \in ListCalls \/ ins[i].kind = "*errors.errorString")
    => /\ unmarshal[1].ok
       /\ Len(unmarshal[1].errs) = Len(errs)
       /\ \A i \in 1..Len(errs) :
              /\ unmarshal[1].errs[i].kind = errs[i].kind
              /\ unmarshal[1].errs[i].rec = errs[i].rec

\* C4: a received record that none of the three catalogs matches is kept as
\* it was decoded: the list entry has its Tag, Type, Severity, AppTag, Path,
\* Message and Info.
C4_RawRecordKept ==
    WireDecoded =>
        \A i \in 1..Len(wire[1].recs) :
            LET r == wire[1].recs[i]
                entry == unmarshal[1].errs[i]
            IN  (/\ getVyattaError(r).kind = "nil"
                 /\ getYangError(r).kind = "nil"
                 /\ getNetconfError(r).kind = "nil")
                => /\ entry.rec.Tag = r.Tag
                   /\ entry.rec.Typ = r.Typ
                   /\ entry.rec.Severity = r.Severity
                   /\ entry.rec.AppTag = r.AppTag
                   /\ entry.rec.Path = r.Path
                   /\ entry.rec.Message = r.Message
                   /\ entry.rec.Info = r.Info

\* the record of the generic error that normalization creates
IsGenericRecord(r, msg, path) ==
    /\ r.XMLName = [Space |-> netconf_namespace, Local |-> <<"rpc-error">>]
    /\ r.Tag = "operation-failed"
    /\ r.Typ = "application"
    /\ r.Severity = "error"
    /\ r.AppTag = ""
    /\ r.Info = <<>>
    /\ r.Message = msg
    /\ r.Path = path

\* C10: MgmtErrorListAppend stores a value that has MarshalJSON or MarshalXML
\* unchanged; it replaces any other value that has the Formattable getters by
\* a new operation-failed / application / error record with the value's
\* GetMessage() as Message and its GetPath() as Path; it replaces any other
\* error by the same record with the Error() string as Message and an empty
\* Path.  Every value given is stored, in order.
C10_Normalization ==
    /\ Len(errs) = Len(ins)
    /\ \A i \in 1..Len(ins) :
           CASE ins[i].kind = "foreignFormattable" ->
                    /\ errs[i].kind = "OperationFailedApplicationError"
                    /\ IsGenericRecord(errs[i].rec, ins[i].msg, ins[i].path)
             [] ins[i].kind = "*MgmtError" ->
                    /\ errs[i].kind = "OperationFailedApplicationError"
                    /\ IsGenericRecord(errs[i].rec, ins[i].rec.Message, ins[i].rec.Path)
             [] ins[i].kind = "*errors.errorString" ->
                    /\ errs[i].kind = "OperationFailedApplicationError"
                    /\ IsGenericRecord(errs[i].rec, ins[i].text, "")
             [] OTHER -> errs[i] = ins[i]

\* a foreign Formattable and a plain error have been appended and replaced
C10_Witness ==
    /\ Len(ins) = 2
    /\ ins[1] = [kind |-> "foreignFormattable", msg |-> "foreign", path |-> "/f"]
    /\ errs[1].rec.Message = "foreign" /\ errs[1].rec.Path = "/f"
    /\ ins[2] = [kind |-> "*errors.errorString", text |-> "This is not a MgmtError error"]
    /\ errs[2].rec.Message = "This is not a MgmtError error" /\ errs[2].rec.Path = ""

\* ---------------------------------------------------------------------
\* Properties of one typed error (SpecError)

YangConstructors ==
    {"NewNonUniqueError", "NewTooManyElementsError", "NewTooFewElementsError",
     "NewMustViolationError", "NewInstanceRequiredError", "NewLeafrefMismatchError",
     "NewMissingChoiceError", "NewInsertFailedError"}

VyattaConstructors == {"NewExecError", "NewPathAmbiguousError"}

\* C3: the (tag, type) pair of a record made by a base-protocol constructor is
\* in the base-protocol table, and the (tag, app-tag) pair of a record made by
\* a YANG or vendor constructor is in the YANG or vendor table: the app-tag is
\* a key of the app-tag map of that tag's entry.
C3_CatalogComplete ==
    ncerr # <<>> =>
        LET c == ncerr[1].ctor
            r == ncerr[1].rec
        IN  /\ c \in YangConstructors =>
                   /\ r.Tag \in DOMAIN errtagmap
                   /\ r.AppTag \in DOMAIN yerrapptagmap
                   /\ yerrapptagmap[r.AppTag] \in DOMAIN yangErrTable[errtagmap[r.Tag]].apptag
            /\ c \in VyattaConstructors =>
                   /\ r.Tag \in DOMAIN vyErrTagMap
                   /\ r.AppTag \in DOMAIN vyErrAppTagMap
                   /\ vyErrAppTagMap[r.AppTag] \in DOMAIN vyErrTable[vyErrTagMap[r.Tag]].apptag
            /\ c \notin (YangConstructors \cup VyattaConstructors) =>
                   /\ r.Tag \in DOMAIN ncerrtagmap
                   /\ r.Typ \in DOMAIN errtypemap
                   /\ errtypemap[r.Typ] \in DOMAIN ncErrTable[ncerrtagmap[r.Tag]].typ

\* C5: the record decoded from the JSON encoding of a constructed error is
\* classified (vendor, YANG, base protocol) to a non-nil value with the Tag,
\* Type, AppTag, Severity, Message and Info of the constructed error, and
\* classification leaves the record it is given as it was.
C5_ClassificationIdempotent ==
    cls # <<>> =>
        /\ cls[1].kind # "nil"
        /\ cls[1].rec = edec[1].rec
        /\ cls[1].rec.Tag = ncerr[1].rec.Tag
        /\ cls[1].rec.Typ = ncerr[1].rec.Typ
        /\ cls[1].rec.AppTag = ncerr[1].rec.AppTag
        /\ cls[1].rec.Severity = ncerr[1].rec.Severity
        /\ cls[1].rec.Message = ncerr[1].rec.Message
        /\ cls[1].rec.Info = ncerr[1].rec.Info

\* C6: decoding the JSON encoding of a constructed error with the wrapper's
\* UnmarshalJSON succeeds and gives a record equal to the error's record field
\* for field, Info entries in the same number and order with the same
\* namespace, local name and value.
C6_JSONRoundTrip ==
    edec # <<>> =>
        /\ edec[1].ok
        /\ edec[1].rec = ncerr[1].rec

\* C7: decoding the XML encoding of a constructed error gives the field values
\* of the error's record, every Info entry with the same namespace (empty
\* when it was constructed empty), local name and value, in the same order.
C7_XMLRoundTrip ==
    exdec # <<>> => exdec[1] = ncerr[1].rec

\* ---------------------------------------------------------------------
\* Properties of the lookups and of Error() (SpecLookup)

Called(f) == call # <<>> /\ call[1].fn = f

\* the types RFC 6241 allows for each base-protocol tag
LegalTypes ==
    [t \in {"in-use", "invalid-value", "missing-element", "bad-element",
            "unknown-element", "unknown-namespace", "access-denied",
            "rollback-failed", "operation-not-supported"} |->
        {"protocol", "application"}] @@
    [t \in {"too-big", "resource-denied"} |->
        {"transport", "rpc", "protocol", "application"}] @@
    [t \in {"missing-attribute", "bad-attribute", "unknown-attribute",
            "operation-failed"} |->
        {"rpc", "protocol", "application"}] @@
    [t \in {"data-exists", "data-missing"} |-> {"application"}] @@
    ("lock-denied" :> {"protocol"}) @@
    ("malformed-message" :> {"rpc"})

LayerTypes == {"transport", "rpc", "protocol", "application"}

\* C12: setNcError reports, in this order, 'invalid error tag' for a tag that
\* is not in the base-protocol table, 'invalid error type' for a type string
\* that is not one of the four layers, 'invalid error type for tag' for a
\* layer that the tag does not allow; the three errors differ from each other
\* and from success, and the call succeeds exactly when none applies.
C12_SetNcErrorFailures ==
    Called("setNcError") =>
        LET tag == call[1].tag
            typ == call[1].typ
            known == ncerrtag_String(tag) \in DOMAIN LegalTypes
            e == ret[1].err
        IN  /\ ~known => e = "invalid error tag"
            /\ (known /\ typ \notin LayerTypes) => e = "invalid error type"
            /\ (known /\ typ \in LayerTypes
                      /\ typ \notin LegalTypes[ncerrtag_String(tag)])
                   => e = "invalid error type for tag"
            /\ (known /\ typ \in LayerTypes
                      /\ typ \in LegalTypes[ncerrtag_String(tag)])
                   => /\ e = ""
                      /\ ret[1].e.Tag = ncerrtag_String(tag)
                      /\ ret[1].e.Typ = typ
            /\ Cardinality({"", "invalid error tag", "invalid error type",
                            "invalid error type for tag"}) = 4

\* an unknown tag with an unknown type has been reported as an invalid tag
C12_Witness ==
    /\ Called("setNcError")
    /\ call[1].tag = "ncerrtag(19)" /\ call[1].typ = "bogus"
    /\ ret[1].err = "invalid error tag"

\* C13 as stated: a tag string that is a key of one of the three tag maps is
\* a key of exactly one of them.
C13_Disjoint ==
    Called("tagmaps") =>
        /\ ~(ret[1].nc /\ ret[1].yang)
        /\ ~(ret[1].nc /\ ret[1].vy)
        /\ ~(ret[1].yang /\ ret[1].vy)

\* C13 amended: every key of the YANG tag map and of the vendor tag map is
\* also a key of the base-protocol tag map; the catalogs are told apart by the
\* app-tag, which is never a key of both the YANG and the vendor app-tag map.
C13_SharedTags ==
    Called("tagmaps") =>
        /\ ret[1].yang => ret[1].nc
        /\ ret[1].vy => ret[1].nc
        /\ ~(ret[1].yangapp /\ ret[1].vyapp)

\* operation-failed has been found in all three tag maps
C13_Witness ==
    /\ Called("tagmaps")
    /\ call[1].tag = "operation-failed"
    /\ ret[1].nc /\ ret[1].yang /\ ret[1].vy

\* C14: getNetconfError returns a wrapper, holding the record it was given,
\* exactly when the Tag is a base-protocol tag, the Type one of the four
\* layers and the Type allowed for the Tag; otherwise it returns nil.
C14_NetconfClassification ==
    Called("getNetconfError") =>
        LET r == call[1].rec
            legal == /\ r.Tag \in DOMAIN LegalTypes
                     /\ r.Typ \in LayerTypes
                     /\ r.Typ \in LegalTypes[r.Tag]
        IN  /\ legal => (ret[1].kind # "nil" /\ ret[1].rec = r)
            /\ ~legal => ret[1].kind = "nil"

\* lock-denied with type protocol has given a LockDeniedError
C14_Witness ==
    /\ Called("getNetconfError")
    /\ call[1].rec.Tag = "lock-denied" /\ call[1].rec.Typ = "protocol"
    /\ ret[1].kind = "LockDeniedError"

\* the severities with their capitalized form
Capitalized ==
    ("error" :> "Error") @@ ("warning" :> "Warning") @@
    ("fatal error" :> "Fatal Error") @@ ("" :> "")

\* C20: MgmtError.Error() is the capitalized Severity, ": ", then Path and
\* ": " when Path is not empty, then Message, for every Severity, Path and
\* Message.
C20_ErrorShape ==
    Called("Error") =>
        LET r == call[1].rec
        IN  ret[1] = Capitalized[r.Severity] \o ": "
                     \o (IF r.Path = "" THEN "" ELSE r.Path \o ": ")
                     \o r.Message

\* a record with severity, path and message has been rendered
C20_Witness ==
    /\ Called("Error")
    /\ call[1].rec.Severity = "warning"
    /\ call[1].rec.Path = "/p"
    /\ call[1].rec.Message = "boom"
    /\ ret[1] = "Warning: /p: boom"

\* ---------------------------------------------------------------------
\* Properties of the wire layout of one record (SpecError)

FieldOrder ==
    <<"error-type", "error-tag", "error-severity", "error-app-tag",
      "error-path", "error-message", "error-info">>

\* the fields a record must show on the wire
EmittedFields(r) ==
    {"error-type", "error-tag", "error-severity"}
    \cup (IF r.AppTag # "" THEN {"error-app-tag"} ELSE {})
    \cup (IF r.Path # "" THEN {"error-path"} ELSE {})
    \cup (IF r.Message # "" THEN {"error-message"} ELSE {})
    \cup (IF Len(r.Info) > 0 THEN {"error-info"} ELSE {})

IsEmitted(r, k) == k \in EmittedFields(r)

ExpectedFields(r) == SelectSeq(FieldOrder, LAMBDA k : IsEmitted(r, k))

\* the value of the string field that a wire name stands for
FieldValue(r, k) ==
    CASE k = "error-type" -> r.Typ
      [] k = "error-tag" -> r.Tag
      [] k = "error-severity" -> r.Severity
      [] k = "error-app-tag" -> r.AppTag
      [] k = "error-path" -> r.Path
      [] k = "error-message" -> r.Message

\* C17: in JSON and in XML a record is written as its fields in the order
\* error-type, error-tag, error-severity, error-app-tag, error-path,
\* error-message, error-info; the first three always, error-app-tag,
\* error-path and error-message exactly when not empty, error-info exactly
\* when Info has entries (one entry written per Info entry); every string
\* field carries the field's value.
C17_RecordLayout ==
    /\ ejson # <<>> =>
           LET r == ncerr[1].rec
               obj == ejson[1]
           IN  /\ [i \in 1..Len(obj) |-> obj[i].key] = ExpectedFields(r)
               /\ \A i \in 1..Len(obj) :
                      IF obj[i].key = "error-info"
                      THEN Len(obj[i].value) = Len(r.Info)
                      ELSE obj[i].value = FieldValue(r, obj[i].key)
    /\ exml # <<>> =>
           LET r == ncerr[1].rec
               ch == exml[1].children
           IN  /\ exml[1].name.Local = <<"rpc-error">>
               /\ [i \in 1..Len(ch) |-> ch[i].name.Local[1]] = ExpectedFields(r)
               /\ \A i \in 1..Len(ch) :
                      IF ch[i].name.Local = <<"error-info">>
                      THEN Len(ch[i].children) = Len(r.Info)
                      ELSE ch[i].text = FieldValue(r, ch[i].name.Local[1])

\* a record with an empty severity, no app-tag, no path and no message but
\* with info entries has been written in both encodings
C17_Witness ==
    /\ ejson # <<>> /\ exml # <<>>
    /\ ncerr[1].rec.Severity = ""
    /\ ncerr[1].rec.AppTag = "" /\ ncerr[1].rec.Path = ""
    /\ ncerr[1].rec.Message = ""
    /\ Len(ncerr[1].rec.Info) = 2
    /\ Len(ejson[1]) = 4 /\ Len(exml[1].children) = 4

\* ---------------------------------------------------------------------
\* Further properties of an error list (Spec)

\* the kinds of value that have neither MarshalJSON nor MarshalXML
UnserializableKinds == {"*MgmtError", "foreignFormattable", "*errors.errorString"}

\* C11: after MgmtErrorListAppend and after UnmarshalJSON every member of a
\* list has MarshalJSON or MarshalXML, the entries added by decoding included.
C11_Serializable ==
    /\ \A i \in 1..Len(errs) : errs[i].kind \notin UnserializableKinds
    /\ unmarshal # <<>> =>
           \A i \in 1..Len(unmarshal[1].errs) :
               unmarshal[1].errs[i].kind \notin UnserializableKinds

\* a raw record and a plain error have been appended and are stored as
\* OperationFailedApplicationError
C11_Witness ==
    /\ Len(ins) = 2 /\ Len(errs) = 2
    /\ ins[1].kind = "*MgmtError"
    /\ ins[2].kind = "*errors.errorString"
    /\ errs[1].kind = "OperationFailedApplicationError"
    /\ errs[2].kind = "OperationFailedApplicationError"

\* the wrappers of the base-protocol catalog
NetconfWrappers == {getNetconfError([newMgmtError EXCEPT !.Tag = t, !.Typ = y]).kind :
                       t \in DOMAIN LegalTypes, y \in LayerTypes} \ {"nil"}

\* C15: reverse classification never fails.  A record with any Tag, AppTag
\* and Type decodes without error to one entry: the vendor wrapper of its
\* (Tag, AppTag); when the vendor catalog misses, the YANG wrapper; when that
\* misses too, the base-protocol wrapper of a legal (Tag, Type); and when all
\* three miss, a generic operation-failed entry for that record.
C15_ClassificationTotal ==
    WireDecoded =>
        /\ unmarshal[1].ok /\ ~unmarshal[1].panic
        /\ Len(unmarshal[1].errs) = Len(wire[1].recs)
        /\ \A i \in 1..Len(wire[1].recs) :
               LET r == wire[1].recs[i]
                   k == <<r.Tag, r.AppTag>>
                   entry == unmarshal[1].errs[i]
                   legal == r.Tag \in DOMAIN LegalTypes /\ r.Typ \in LegalTypes[r.Tag]
               IN  IF k \in DOMAIN VendorWrapper
                   THEN entry.kind = VendorWrapper[k]
                   ELSE IF k \in DOMAIN YangWrapper
                   THEN entry.kind = YangWrapper[k]
                   ELSE IF legal
                   THEN /\ entry.kind \in NetconfWrappers
                        /\ entry.rec.Tag = r.Tag /\ entry.rec.Typ = r.Typ
                   ELSE /\ entry.kind = "OperationFailedApplicationError"
                        /\ IsGenericRecord(entry.rec, r.Message, r.Path)

\* a record that misses the vendor and the YANG catalog (an app-tag of
\* neither) and the base-protocol catalog (lock-denied is a protocol error)
\* has been decoded into a generic entry
C15_Witness ==
    /\ WireDecoded /\ unmarshal[1].ok
    /\ Len(wire[1].recs) = 1
    /\ wire[1].recs[1].Tag = "lock-denied"
    /\ wire[1].recs[1].Typ = "application"
    /\ wire[1].recs[1].AppTag = "bogus"
    /\ unmarshal[1].errs[1].kind = "OperationFailedApplicationError"
    /\ unmarshal[1].errs[1].rec.Tag = "operation-failed"
    /\ unmarshal[1].errs[1].rec.Message = "wire"

\* a document of any kind has been decoded
PeerDecoded == wire # <<>> /\ wire[1].from = "peer" /\ unmarshal # <<>>

\* the documents among OtherDocuments that are not an error list: text that
\* is not JSON, a document or an element that is neither an object nor null,
\* an info object without exactly one key
IsWrongShaped(doc) ==
    \/ doc.type \in {"malformed", "string"}
    \/ /\ doc.type = "object" /\ Len(doc.members) = 1
       /\ \E i \in 1..Len(doc.members[1].value) :
              LET el == doc.members[1].value[i]
              IN  \/ el.type = "string"
                  \/ /\ el.type = "object"
                     /\ \E j \in 1..Len(el.members) :
                            /\ el.members[j].key = "error-info"
                            /\ \E n \in 1..Len(el.members[j].value) :
                                   Len(el.members[j].value[n]) # 1

\* C16: MgmtErrorList.UnmarshalJSON never panics: for every document it
\* succeeds or returns an error, and it returns an error for text that is not
\* JSON, for a wrong-shaped document and for an info object that does not
\* have exactly one key.
C16_NoPanic ==
    PeerDecoded =>
        /\ ~unmarshal[1].panic
        /\ IsWrongShaped(wire[1].doc) => ~unmarshal[1].ok

\* the list errs has been encoded as JSON
ListMarshalled == wire # <<>> /\ wire[1].from = "marshal"

\* C18: MarshalJSON of a list is one object with the one key "error-list"
\* whose array holds the encodings of the members in insertion order, the
\* empty array for an empty list; MarshalXML is one rpc-error element per
\* member in insertion order, with no element around them.
C18_ListLayout ==
    /\ ListMarshalled =>
           LET doc == wire[1].doc
           IN  /\ doc.type = "object"
               /\ Len(doc.members) = 1
               /\ doc.members[1].key = "error-list"
               /\ Len(doc.members[1].value) = Len(errs)
               /\ \A i \in 1..Len(errs) :
                      /\ doc.members[1].value[i].type = "object"
                      /\ doc.members[1].value[i].members = MemberMarshalJSON(errs[i])
    /\ Called("MarshalXML") =>
           /\ Len(ret[1]) = Len(call[1].errs)
           /\ \A i \in 1..Len(ret[1]) :
                  /\ ret[1][i].name.Local = <<"rpc-error">>
                  /\ ret[1][i] = MgmtErrorMarshalXML(call[1].errs[i].rec)

\* the strings of ss, each on a line of its own
RECURSIVE Lines(_)
Lines(ss) ==
    IF Len(ss) = 0 THEN ""
    ELSE IF Len(ss) = 1 THEN ss[1]
    ELSE Lines(SubSeq(ss, 1, Len(ss) - 1)) \o "\n" \o ss[Len(ss)]

\* C19: MgmtErrorList.Error() is the members' own Error() strings in
\* insertion order with one newline between two of them, the empty string
\* for an empty list; CustomError(f) is the same with f(member) in the place
\* of member.Error(), and CustomError(nil) is the string Error() returns.
C19_AggregateFormat ==
    /\ Called("ListError") =>
           LET l == call[1].errs
           IN  /\ ~ret[1].panic
               /\ ret[1].s = Lines([i \in 1..Len(l) |-> MemberError(l[i]).s])
               /\ l = <<>> => ret[1].s = ""
    /\ Called("CustomError") =>
           LET l == call[1].errs
               f == call[1].fmtFn
           IN  /\ ~ret[1].panic
               /\ f = "typeName" => ret[1].s = Lines([i \in 1..Len(l) |-> l[i].kind])
               /\ f = "fixed" => ret[1].s = Lines([i \in 1..Len(l) |-> "-"])
               /\ f = "nil" => ret[1] = MgmtErrorListError(l)

\* the list of a test error and a plain error has been rendered
C19_Witness ==
    /\ Called("ListError")
    /\ Len(ins) = 2
    /\ ins[1] = genTestMgmtError
    /\ ins[2] = [kind |-> "*errors.errorString", text |-> "This is not a MgmtError error"]
    /\ ret[1].s = "Error: /path/1: Message 1\nError: This is not a MgmtError error"

\* ---------------------------------------------------------------------
\* Properties of the Error() methods of the wrappers (SpecLookup)

\* an info value of NewNonUniqueError without the leading p/
WithoutPrefix ==
    [p \in {"", "/p", "/q"} |->
        CASE p = "" -> ("/p/a" :> "p/a") @@ ("/p/b" :> "p/b")
          [] p = "/p" -> ("/p/a" :> "a") @@ ("/p/b" :> "b")
          [] p = "/q" -> ("/p/a" :> "/p/a") @@ ("/p/b" :> "/p/b")]

\* C21: Error() of a NonUniqueError with at least two info entries and Path p
\* is "Error: p: Non-unique paths " and the info values in Info order with
\* ", " between them, each without a leading p/; with fewer than two info
\* entries it is the rendering of MgmtError.Error.
C21_NonUniqueText ==
    (Called("MemberError") /\ call[1].ctor = "NewNonUniqueError") =>
        LET r == call[1].v.rec
            vals == [i \in 1..Len(r.Info) |-> WithoutPrefix[r.Path][r.Info[i].Value]]
        IN  /\ ~ret[1].panic
            /\ Len(r.Info) = 2 =>
                   ret[1].s = "Error: " \o r.Path \o ": Non-unique paths "
                              \o vals[1] \o ", " \o vals[2]
            /\ Len(r.Info) = 3 =>
                   ret[1].s = "Error: " \o r.Path \o ": Non-unique paths "
                              \o vals[1] \o ", " \o vals[2] \o ", " \o vals[3]
            /\ Len(r.Info) < 2 =>
                   ret[1].s = "Error: "
                              \o (IF r.Path = "" THEN "" ELSE r.Path \o ": ")
                              \o r.Message

\* NewNonUniqueError(/p/a, /p/b) with Path /p has been rendered
C21_Witness ==
    /\ Called("MemberError") /\ call[1].ctor = "NewNonUniqueError"
    /\ call[1].v.rec.Path = "/p"
    /\ Len(call[1].v.rec.Info) = 2
    /\ call[1].v.rec.Info[1].Value = "/p/a"
    /\ call[1].v.rec.Info[2].Value = "/p/b"
    /\ ret[1].s = "Error: /p: Non-unique paths a, b"

\* the names a, a:b, b in natural order, those of S only
RECURSIVE InNaturalOrder(_, _)
InNaturalOrder(S, order) ==
    IF order = <<>> THEN <<>>
    ELSE (IF Head(order) \in S THEN <<Head(order)>> ELSE <<>>)
         \o InNaturalOrder(S, Tail(order))

\* the strings of ss with ", " between them
RECURSIVE CommaList(_)
CommaList(ss) ==
    IF Len(ss) = 0 THEN ""
    ELSE IF Len(ss) = 1 THEN ss[1]
    ELSE CommaList(SubSeq(ss, 1, Len(ss) - 1)) \o ", " \o ss[Len(ss)]

\* C26: Error() of a PathAmbiguousError lists the names of the matches in
\* natural order with ", " between them, whatever the order of the Info
\* entries; before them stands "Error: Ambiguous command, could be one of: "
\* for an empty Path and "Error: <Path>: Ambiguous path, could be one of: "
\* otherwise.
C26_AmbiguousText ==
    (Called("MemberError") /\ call[1].ctor = "NewPathAmbiguousError") =>
        LET r == call[1].v.rec
            names == {TokenString(r.Info[i].Local) : i \in 1..Len(r.Info)}
        IN  /\ ~ret[1].panic
            /\ ret[1].s =
                   (IF r.Path = "" THEN "Error: Ambiguous command, could be one of: "
                    ELSE "Error: " \o r.Path \o ": Ambiguous path, could be one of: ")
                   \o CommaList(InNaturalOrder(names, <<"a", "a:b", "b">>))

\* the matches b and a, built in this order, have been listed as a, b
C26_Witness ==
    /\ Called("MemberError") /\ call[1].ctor = "NewPathAmbiguousError"
    /\ call[1].v.rec.Path = ""
    /\ Len(call[1].v.rec.Info) = 2
    /\ call[1].v.rec.Info[1].Local = <<"b">>
    /\ call[1].v.rec.Info[2].Local = <<"a">>
    /\ ret[1].s = "Error: Ambiguous command, could be one of: a, b"

\* ---------------------------------------------------------------------
\* Properties of the constructors and setters (SpecLookup)

\* C25: the record of NewLeafrefMismatchError(path, x) is the same for every
\* x and is field for field the record of NewInstanceRequiredError(path):
\* data-missing, instance-required, application, no info.
C25_LeafrefPathDiscarded ==
    Called("NewLeafrefMismatchError") =>
        LET r == ret[1].rec
        IN  /\ ret[1].kind = "LeafrefMismatchError"
            /\ \A y \in {"", "/p", "/r", "/other"} :
                   NewLeafrefMismatchError(call[1].path, y).rec = r
            /\ r = NewInstanceRequiredError(call[1].path).rec
            /\ r.Tag = "data-missing" /\ r.AppTag = "instance-required"
            /\ r.Typ = "application" /\ r.Path = call[1].path
            /\ r.Info = <<>>

\* NewLeafrefMismatchError(/p, /r) has been called
C25_Witness ==
    /\ Called("NewLeafrefMismatchError")
    /\ call[1].path = "/p" /\ call[1].lrefPath = "/r"
    /\ ret[1].rec.Path = "/p" /\ ret[1].rec.AppTag = "instance-required"

\* C27: getVyattaError and getYangError return the wrapper of the record's
\* (Tag, AppTag) whatever its Type string is, and the wrapper's record has
\* that Type and every other field unchanged.
C27_TypeIgnored ==
    /\ Called("getYangError") =>
           LET r == call[1].rec
               k == <<r.Tag, r.AppTag>>
           IN  k \in DOMAIN YangWrapper =>
                   /\ ret[1].kind = YangWrapper[k]
                   /\ ret[1].rec.Typ = r.Typ
                   /\ ret[1].rec = r
    /\ Called("getVyattaError") =>
           LET r == call[1].rec
               k == <<r.Tag, r.AppTag>>
           IN  k \in DOMAIN VendorWrapper =>
                   /\ ret[1].kind = VendorWrapper[k]
                   /\ ret[1].rec.Typ = r.Typ
                   /\ ret[1].rec = r

\* a must-violation record of type transport has been given to getYangError
C27_Witness ==
    /\ Called("getYangError")
    /\ call[1].rec.Tag = "operation-failed"
    /\ call[1].rec.AppTag = "must-violation"
    /\ call[1].rec.Typ = "transport"
    /\ ret[1].kind = "MustViolationError"

\* the strings the three tables give to Tag
SetTags ==
    {"in-use", "invalid-value", "too-big", "missing-attribute", "bad-attribute",
     "unknown-attribute", "missing-element", "bad-element", "unknown-element",
     "unknown-namespace", "access-denied", "lock-denied", "resource-denied",
     "rollback-failed", "data-exists", "data-missing", "operation-not-supported",
     "operation-failed", "malformed-message"}

\* C29: when setNcError, setYangError or setVyattaError returns an error the
\* record is as it was before the call; when it returns nil, Tag, Type,
\* Severity, Message, AppTag and Path hold the new values, and Info is the
\* info argument, or what it was before when the argument is nil.
C29_SetFrame ==
    (Called("setNcError") \/ Called("setYangError") \/ Called("setVyattaError")) =>
        LET old == call[1].e
            new == ret[1].e
        IN  /\ ret[1].err # "" => new = old
            /\ ret[1].err = "" =>
                   /\ new.Tag \in SetTags
                   /\ new.Typ = call[1].typ
                   /\ new.Severity = "error"
                   /\ new.Message \notin {"old message"}
                   /\ new.AppTag = call[1].apptag
                   /\ new.Path = call[1].path
                   /\ new.XMLName = old.XMLName
                   /\ call[1].info = <<>> => new.Info = old.Info
                   /\ call[1].info # <<>> => new.Info = call[1].info[1]

\* setYangError has failed on a record whose fields all held something
C29_Witness ==
    /\ Called("setYangError")
    /\ call[1].tag = "yerrtag(3)"
    /\ call[1].e.Tag = "old-tag" /\ Len(call[1].e.Info) = 1
    /\ ret[1].err = "invalid error tag"
    /\ ret[1].e.Tag = "old-tag"

\* ---------------------------------------------------------------------
\* Properties of the records in and out of a list (Spec)

\* the name every record of the library has
IsRpcError(r) ==
    r.XMLName = [Space |-> <<"urn", ":", "ietf", ":", "params", ":", "xml", ":", "ns",
                             ":", "netconf", ":", "base", ":", "1.0">>,
                 Local |-> <<"rpc-error">>]

\* C22: the record of every public constructor, of a typed wrapper's
\* UnmarshalJSON, of every entry MgmtErrorList.UnmarshalJSON adds and of the
\* generic wrapper of list normalization has XMLName rpc-error in the
\* namespace urn:ietf:params:xml:ns:netconf:base:1.0.
C22_XMLNameFixed ==
    /\ \A i \in 1..Len(ins) : ins[i] \in ListCalls => IsRpcError(ins[i].rec)
    /\ \A i \in 1..Len(errs) :
           errs[i].kind # "foreignJSONMarshaler" => IsRpcError(errs[i].rec)
    /\ unmarshal # <<>> =>
           \A i \in 1..Len(unmarshal[1].errs) : IsRpcError(unmarshal[1].errs[i].rec)
    /\ Called("WrapperUnmarshalJSON") => IsRpcError(ret[1].rec)
    /\ Called("UnmarshalJSON") =>
           \A i \in 1..Len(ret[1].errs) : IsRpcError(ret[1].errs[i].rec)

\* a plain error has been normalized next to a constructed error, and the
\* encoding of the constructed error has been decoded by its wrapper
C22_Witness ==
    /\ Len(ins) = 2
    /\ ins[1].kind = "*errors.errorString"
    /\ errs[1].kind = "OperationFailedApplicationError"
    /\ errs[2].kind = "ExecError"
    /\ Called("WrapperUnmarshalJSON")
    /\ call[1].v = errs[2]
    /\ ret[1].ok /\ ret[1].rec.AppTag = "exec-failed"

\* the wrappers whose Error() reads Info[0]
ElementWrapper ==
    (<<"unknown-element", "protocol">> :> "UnknownElementProtocolError") @@
    (<<"unknown-element", "application">> :> "UnknownElementApplicationError") @@
    (<<"missing-element", "protocol">> :> "MissingElementProtocolError") @@
    (<<"missing-element", "application">> :> "MissingElementApplicationError")

\* C24: a received record with Tag unknown-element or missing-element, Type
\* protocol or application and no Info decodes without error into the
\* UnknownElement / MissingElement wrapper with an empty Info; Error() of
\* that wrapper, and GetMessage() of the unknown-element one, then read
\* Info[0] of the empty list, which is a run-time panic.
C24_InfoArityUnchecked ==
    /\ WireDecoded =>
           \A i \in 1..Len(wire[1].recs) :
               LET r == wire[1].recs[i]
               IN  (<<r.Tag, r.Typ>> \in DOMAIN ElementWrapper /\ r.Info = <<>>) =>
                       /\ unmarshal[1].ok
                       /\ unmarshal[1].errs[i].kind = ElementWrapper[<<r.Tag, r.Typ>>]
                       /\ unmarshal[1].errs[i].rec.Info = <<>>
    /\ (/\ Called("DecodedError")
        /\ call[1].v.kind \in {ElementWrapper[k] : k \in DOMAIN ElementWrapper}
        /\ call[1].v.rec.Info = <<>>)
           => ret[1].panic
    /\ (/\ Called("DecodedGetMessage")
        /\ call[1].v.kind \in {"UnknownElementProtocolError",
                                "UnknownElementApplicationError"}
        /\ call[1].v.rec.Info = <<>>)
           => ret[1].panic

\* an unknown-element record without info has been decoded and its Error()
\* called
C24_Witness ==
    /\ WireDecoded
    /\ Len(wire[1].recs) = 1
    /\ wire[1].recs[1].Tag = "unknown-element"
    /\ wire[1].recs[1].Typ = "protocol"
    /\ wire[1].recs[1].Info = <<>>
    /\ Called("DecodedError")
    /\ call[1].v.kind = "UnknownElementProtocolError"
    /\ ret[1].panic

\* the number of elements of the error-list array of doc
ElementCount(doc) ==
    IF doc.type = "object" /\ Len(doc.members) = 1 THEN Len(doc.members[1].value)
    ELSE 0

\* C28: MgmtErrorList.UnmarshalJSON either fails and leaves the members of
\* the list as they were, or succeeds and leaves exactly the decoded entries
\* in wire order, none of the members the list held before.
C28_AllOrNothing ==
    Called("UnmarshalJSON") =>
        /\ ~ret[1].ok => ret[1].errs = call[1].errs
        /\ ret[1].ok =>
               /\ Len(ret[1].errs) = ElementCount(call[1].doc)
               /\ ret[1].errs = MgmtErrorListUnmarshalJSON(<<>>, call[1].doc).errs

\* C30: MgmtErrorListAppend with k errors makes the list k longer, keeps the
\* members it held where they were and puts the k normalized values after
\* them in argument order; Error(), CustomError, MarshalJSON and MarshalXML
\* leave the list as it is.
C30_AppendGrows ==
    [][/\ errs' # errs =>
              LET k == Len(ins') - Len(ins)
              IN  /\ k > 0
                  /\ Len(errs') = Len(errs) + k
                  /\ \A i \in 1..Len(errs) : errs'[i] = errs[i]
                  /\ \A i \in 1..k :
                         errs'[Len(errs) + i] = mkMgmtError(ins'[Len(ins) + i])
       /\ (call' # call \/ wire' # wire) => errs' = errs]_vars

\* a list of two members has been encoded as XML
C30_Witness ==
    /\ Len(ins) = 2 /\ Len(errs) = 2
    /\ errs[1].kind = "*testMgmtError"
    /\ errs[2].kind = "ExecError"
    /\ Called("MarshalXML")
    /\ call[1].errs = errs

\* ---------------------------------------------------------------------
\* Properties of the package tables (SpecLookup)

====
